---- MODULE Spec2Model ----
(***************************************************************************)
(* Job lifecycle and temporary-resource management of the PDF tools web    *)
(* application: per-request workspaces, staging of uploads, the six        *)
(* transforms seen as external operations, the download endpoint and the   *)
(* cleanup threads.  File names and paths are strings, handled character   *)
(* by character as the Python code handles them.                           *)
(***************************************************************************)
EXTENDS Integers, Sequences, FiniteSets, TLC

(***************************************************************************)
(* Python string primitives.                                               *)
(***************************************************************************)
Ch(s, i) == SubSeq(s, i, i)

StartsWith(s, p) == Len(p) <= Len(s) /\ SubSeq(s, 1, Len(p)) = p

EndsWith(s, p) == Len(p) <= Len(s) /\ SubSeq(s, Len(s) - Len(p) + 1, Len(s)) = p

Contains(s, p) == \E i \in 1..(Len(s) - Len(p) + 1) : SubSeq(s, i, i + Len(p) - 1) = p

RECURSIVE RFindFrom(_, _, _)
RFindFrom(s, c, i) ==
    IF i = 0 THEN 0 ELSE IF Ch(s, i) = c THEN i ELSE RFindFrom(s, c, i - 1)

\* str.rfind(c) for a one-character c, 1-based; 0 when c does not occur
RFind(s, c) == RFindFrom(s, c, Len(s))

RECURSIVE FindFrom(_, _, _)
FindFrom(s, c, i) ==
    IF i > Len(s) THEN 0 ELSE IF Ch(s, i) = c THEN i ELSE FindFrom(s, c, i + 1)

\* str.find(c) for a one-character c, 1-based; 0 when c does not occur
Find(s, c) == FindFrom(s, c, 1)

UpperChars == <<"A", "B", "C", "D", "E", "F", "G", "H", "I", "J", "K", "L", "M",
                "N", "O", "P", "Q", "R", "S", "T", "U", "V", "W", "X", "Y", "Z">>

LowerChars == <<"a", "b", "c", "d", "e", "f", "g", "h", "i", "j", "k", "l", "m",
                "n", "o", "p", "q", "r", "s", "t", "u", "v", "w", "x", "y", "z">>

DigitChars == <<"0", "1", "2", "3", "4", "5", "6", "7", "8", "9">>

Range(f) == {f[i] : i \in DOMAIN f}

LowerCh(c) ==
    IF c \in Range(UpperChars)
    THEN LowerChars[CHOOSE i \in 1..26 : UpperChars[i] = c]
    ELSE c

RECURSIVE Lower(_)
Lower(s) == IF s = "" THEN "" ELSE LowerCh(Ch(s, 1)) \o Lower(Tail(s))

\* str.strip(chars) for a set of one-character strings
RECURSIVE LStrip(_, _)
LStrip(s, cs) == IF s # "" /\ Ch(s, 1) \in cs THEN LStrip(Tail(s), cs) ELSE s

RECURSIVE RStrip(_, _)
RStrip(s, cs) ==
    IF s # "" /\ Ch(s, Len(s)) \in cs THEN RStrip(SubSeq(s, 1, Len(s) - 1), cs) ELSE s

Strip(s, cs) == RStrip(LStrip(s, cs), cs)

WhiteChars == {" "}

\* "_".join(s.split()): whitespace runs become one "_", none at either end
RECURSIVE JoinWords(_)
JoinWords(s) ==
    LET t == LStrip(s, WhiteChars)
    IN  IF t = "" THEN ""
        ELSE IF Ch(t, 1) \in WhiteChars THEN ""
        ELSE LET sp   == Find(t, " ")
                 word == IF sp = 0 THEN t ELSE SubSeq(t, 1, sp - 1)
                 rest == IF sp = 0 THEN "" ELSE LStrip(SubSeq(t, sp, Len(t)), WhiteChars)
             IN  IF rest = "" THEN word ELSE word \o "_" \o JoinWords(rest)

RECURSIVE ReplaceCh(_, _, _)
ReplaceCh(s, c, d) ==
    IF s = "" THEN ""
    ELSE (IF Ch(s, 1) = c THEN d ELSE Ch(s, 1)) \o ReplaceCh(Tail(s), c, d)

RECURSIVE KeepChars(_, _)
KeepChars(s, cs) ==
    IF s = "" THEN ""
    ELSE (IF Ch(s, 1) \in cs THEN Ch(s, 1) ELSE "") \o KeepChars(Tail(s), cs)

\* werkzeug's _filename_ascii_strip_re keeps [A-Za-z0-9_.-]
SafeChars == Range(UpperChars) \cup Range(LowerChars) \cup Range(DigitChars) \cup {"_", ".", "-"}

\* werkzeug.utils.secure_filename on a POSIX host, for ASCII input
secure_filename(filename) ==
    Strip(KeepChars(JoinWords(ReplaceCh(filename, "/", " ")), SafeChars), {".", "_"})

(***************************************************************************)
(* os.path on a POSIX host.                                                *)
(***************************************************************************)
PathJoin(a, b) ==
    IF StartsWith(b, "/") THEN b
    ELSE IF a = "" \/ EndsWith(a, "/") THEN a \o b
    ELSE a \o "/" \o b

Dirname(p) ==
    LET i    == RFind(p, "/")
        head == SubSeq(p, 1, i)
    IN  IF head # "" /\ RStrip(head, {"/"}) # "" THEN RStrip(head, {"/"}) ELSE head

Basename(p) == SubSeq(p, RFind(p, "/") + 1, Len(p))

\* os.path.splitext: the extension starts at the last dot of the last
\* component, unless only dots precede it there
SplitextAt(p) ==
    LET sepIndex == RFind(p, "/")
        dotIndex == RFind(p, ".")
    IN  IF dotIndex > sepIndex
           /\ \E k \in (sepIndex + 1)..(dotIndex - 1) : Ch(p, k) # "."
        THEN dotIndex ELSE Len(p) + 1

SplitextRoot(p) == SubSeq(p, 1, SplitextAt(p) - 1)

SplitextExt(p) == SubSeq(p, SplitextAt(p), Len(p))

\* p.split("/")
RECURSIVE PathParts(_)
PathParts(p) ==
    LET i == Find(p, "/")
    IN  IF i = 0 THEN <<p>> ELSE <<SubSeq(p, 1, i - 1)>> \o PathParts(SubSeq(p, i + 1, Len(p)))

\* the components left once "" and "." are dropped and every ".." has climbed
\* out of the component before it
RECURSIVE Climb(_, _)
Climb(comps, parts) ==
    IF parts = <<>> THEN comps
    ELSE IF Head(parts) \in {"", "."} THEN Climb(comps, Tail(parts))
    ELSE IF Head(parts) = ".." /\ comps # <<>> /\ comps[Len(comps)] # ".."
         THEN Climb(SubSeq(comps, 1, Len(comps) - 1), Tail(parts))
    ELSE Climb(Append(comps, Head(parts)), Tail(parts))

RECURSIVE JoinParts(_)
JoinParts(comps) ==
    IF comps = <<>> THEN ""
    ELSE IF Len(comps) = 1 THEN comps[1]
    ELSE comps[1] \o "/" \o JoinParts(Tail(comps))

\* os.path.normpath of a relative path: the entry the path lookup of the
\* operating system reaches for p when the directories p passes through exist
Normpath(p) ==
    LET comps == Climb(<<>>, PathParts(p))
    IN  IF comps = <<>> THEN "." ELSE JoinParts(comps)

(***************************************************************************)
(* Bounds of the model.                                                    *)
(***************************************************************************)
\* HTTP requests (processing requests and downloads together) per run
MaxRequests == 3

(***************************************************************************)
(* Configuration (config.py) and fixed values of the services.             *)
(***************************************************************************)
UPLOAD_FOLDER == "uploads"

ALLOWED_EXTENSIONS == {"pdf"}

\* values of Config.CLEANUP_DELAY the application may be configured with
ConfigDelays == {0, 10}

\* time.sleep(5) of the compress and image-to-PDF cleanup threads
FixedCleanupSleep == 5

(***************************************************************************)
(* The filesystem: a function from the paths that exist to their entries.  *)
(* A file entry carries its pages (for a ZIP: its member names) and        *)
(* whether its writer has finished writing it.                             *)
(***************************************************************************)
DirEntry == [kind |-> "dir", pages |-> <<>>, complete |-> TRUE]

FileEntry(pages, complete) == [kind |-> "file", pages |-> pages, complete |-> complete]

Exists(f, p) == p \in DOMAIN f

IsFile(f, p) == Exists(f, p) /\ f[p].kind = "file"

IsDir(f, p) == Exists(f, p) /\ f[p].kind = "dir"

Listdir(f, d) == {p \in DOMAIN f : p # d /\ Dirname(p) = d}

Put(f, p, e) == [q \in DOMAIN f \cup {p} |-> IF q = p THEN e ELSE f[q]]

Remove(f, p) == [q \in DOMAIN f \ {p} |-> f[q]]

\* file.save(path) of an upload: the staged copy holds the upload's content
SaveUpload(f, path, file) == Put(f, path, FileEntry(file.pages, TRUE))

\* a PDF, image or Word library can parse the file at p: it is there, wholly
\* written, and holds a document (a corrupt upload holds no page)
CanRead(f, p) == IsFile(f, p) /\ f[p].complete /\ f[p].pages # <<>>

\* the function t computed once, entry by entry, when it is compared with
\* itself, and looked up afterwards
Tabulated(t) == IF t = t THEN t ELSE t

RECURSIVE ToStr(_)
ToStr(n) == IF n < 10 THEN DigitChars[n + 1] ELSE ToStr(n \div 10) \o DigitChars[(n % 10) + 1]

RECURSIVE Rep(_, _)
Rep(c, k) == IF k = 0 THEN "" ELSE c \o Rep(c, k - 1)

\* the n-th identifier drawn by uuid.uuid4(): 8-4-4-4-12 hexadecimal digits,
\* version nibble 4, variant nibble 8; distinct draws are distinct
UuidText(n) ==
    LET d == DigitChars[n + 1]
    IN  Rep(d, 8) \o "-" \o Rep(d, 4) \o "-4" \o Rep(d, 3) \o "-8" \o Rep(d, 3) \o "-" \o Rep(d, 12)

Uuids == Tabulated([n \in 1..9 |-> UuidText(n)])

Uuid(n) == Uuids[n]

(***************************************************************************)
(* utils.py                                                                *)
(***************************************************************************)
\* an extension check that tells upper case from lower case
AllowedFileCaseSensitive(filename) ==
    /\ Contains(filename, ".")
    /\ SubSeq(filename, RFind(filename, ".") + 1, Len(filename)) \in ALLOWED_EXTENSIONS

allowed_file(filename) ==
    /\ Contains(filename, ".")
    /\ Lower(SubSeq(filename, RFind(filename, ".") + 1, Len(filename))) \in ALLOWED_EXTENSIONS

\* the temp_dir create_temp_directory returns
create_temp_directory(base_path, unique_id) == PathJoin(base_path, unique_id)

\* os.makedirs(d, exist_ok=True) under the upload root
MakeDirs(f, d) == IF Exists(f, d) THEN f ELSE Put(f, d, DirEntry)

\* paths whose removal the operating system refuses (a file in a directory
\* the process may not write to): os.remove raises OSError for them
Undeletable == {PathJoin(PathJoin(UPLOAD_FOLDER, Uuid(9)), "locked.pdf")}

\* the try block of delayed_cleanup for one path: the filesystem it leaves and
\* the exception it ends with ("" for none)
CleanupTry(f, p) ==
    IF IsFile(f, p)
    THEN (IF p \in Undeletable THEN [fs |-> f, exc |-> "OSError"]
          ELSE [fs |-> Remove(f, p), exc |-> ""])
    ELSE IF IsDir(f, p) /\ Listdir(f, p) = {} THEN [fs |-> Remove(f, p), exc |-> ""]
    ELSE [fs |-> f, exc |-> ""]

\* a loop body without the handler: the exception goes on
CleanupExceptMissing(exc) == exc

\* except Exception: pass
CleanupExcept(exc) == ""

\* the for loop of delayed_cleanup: the filesystem it leaves and the exception
\* that ended it ("" when it ran to its end)
RECURSIVE CleanupLoop(_, _)
CleanupLoop(f, file_paths) ==
    IF file_paths = <<>> THEN [fs |-> f, exc |-> ""]
    ELSE LET r == CleanupTry(f, Head(file_paths))
         IN  IF CleanupExcept(r.exc) # "" THEN r
             ELSE CleanupLoop(r.fs, Tail(file_paths))

\* one pass of delayed_cleanup over file_paths, after the sleep
CleanupPass(f, file_paths) == CleanupLoop(f, file_paths).fs

\* a call that hands every pass to a thread
CleanupAlwaysInThread(delay) == delay >= 0

\* cleanup_files: with delay > 0 the pass is left to a new thread
CleanupRunsInThread(delay) == delay > 0

\* a staged name without the index of the upload
TempFilenameNoIndex(i, file) == "temp_" \o secure_filename(file.filename)

TempFilename(i, file) == "temp_" \o ToStr(i) \o "_" \o secure_filename(file.filename)

\* the loop of save_uploaded_files from Head(files), of enumerate index i, on
RECURSIVE StagedPaths(_, _, _)
StagedPaths(files, temp_dir, i) ==
    IF files = <<>> THEN <<>>
    ELSE IF Head(files).filename # ""
         THEN <<PathJoin(temp_dir, TempFilename(i, Head(files)))>>
              \o StagedPaths(Tail(files), temp_dir, i + 1)
         ELSE StagedPaths(Tail(files), temp_dir, i + 1)

\* temp_files, the list save_uploaded_files returns
save_uploaded_files(files, temp_dir) == StagedPaths(files, temp_dir, 0)

HasFilename(file) == file.filename # ""

\* file.save(temp_filepath) for each upload that has a file name, in order
RECURSIVE SaveAt(_, _, _)
SaveAt(f, temp_files, files) ==
    IF temp_files = <<>> THEN f
    ELSE SaveAt(SaveUpload(f, Head(temp_files), Head(files)), Tail(temp_files), Tail(files))

\* the filesystem after save_uploaded_files has returned temp_files
SavedFiles(f, temp_files, files) == SaveAt(f, temp_files, SelectSeq(files, HasFilename))

IsValidUpload(file) == file.filename # "" /\ allowed_file(file.filename)

validate_pdf_files(files, min_files) ==
    LET valid_files == SelectSeq(files, IsValidUpload)
    IN  IF files = <<>> THEN [ok |-> FALSE, valid_files |-> <<>>]
        ELSE IF Len(valid_files) < min_files THEN [ok |-> FALSE, valid_files |-> <<>>]
        ELSE [ok |-> TRUE, valid_files |-> valid_files]

secure_output_filename(filename, default_name) ==
    LET named == IF filename = "" THEN default_name ELSE filename
        dotted == IF EndsWith(named, ".pdf") THEN named ELSE named \o ".pdf"
    IN  secure_filename(dotted)

(***************************************************************************)
(* Uploads and requests the clients send.                                  *)
(***************************************************************************)
FileX == [filename |-> "x.pdf", pages |-> <<"x1", "x2">>]

FileY == [filename |-> "y.pdf", pages |-> <<"y1">>]

FileCorrupt == [filename |-> "bad.pdf", pages |-> <<>>]

FileText == [filename |-> "notes.txt", pages |-> <<"n1">>]

FileDocx == [filename |-> "r.docx", pages |-> <<"r1">>]

FilePng == [filename |-> "p.png", pages |-> <<"p1">>]

\* a file field submitted with no file selected
FileNone == [filename |-> "", pages |-> <<>>]

MergeRequests ==
    { [files |-> <<FileX, FileY>>, output_filename |-> "merged-document.pdf"],
      [files |-> <<FileX, FileY>>, output_filename |-> "temp_0_x.pdf"],
      [files |-> <<FileX, FileY>>, output_filename |-> "compressed.pdf"],
      [files |-> <<FileX, FileCorrupt>>, output_filename |-> "merged-document.pdf"],
      [files |-> <<FileX, FileText>>, output_filename |-> "merged-document.pdf"],
      [files |-> <<FileNone, FileText>>, output_filename |-> "merged-document.pdf"],
      [files |-> <<>>, output_filename |-> "merged-document.pdf"] }

FileSix == [filename |-> "s.pdf", pages |-> <<"s1", "s2", "s3", "s4", "s5", "s6">>]

\* a second document uploaded under the name of the first
FileXAgain == [filename |-> "x.pdf", pages |-> <<"z1">>]

\* merges of two, three and four uploads in other orders, with uploads the
\* validation drops between them and equal file names
MergeOrderRequests ==
    { [files |-> <<FileY, FileX>>, output_filename |-> ""],
      [files |-> <<FileSix, FileX, FileY>>, output_filename |-> ""],
      [files |-> <<FileX, FileText, FileY>>, output_filename |-> ""],
      [files |-> <<FileText, FileY, FileNone, FileX, FileXAgain>>, output_filename |-> ""],
      [files |-> <<FileText, FileX>>, output_filename |-> ""] }

(***************************************************************************)
(* State.                                                                  *)
(***************************************************************************)
VARIABLES
    fs,            \* the filesystem
    jobs,          \* the processing requests received so far, in order of arrival
    downloads,     \* the download requests received so far
    threads,       \* the cleanup threads started so far
    config_delay,  \* current_app.config['CLEANUP_DELAY']
    calls          \* the direct calls of the functions of utils.py made so far

vars == <<fs, jobs, downloads, threads, config_delay, calls>>

WorkspaceTools == {"merge", "split", "pdf2word", "word2pdf"}

\* a request that is still being handled
RunningJob(tool, unique_id, temp_dir, temp_files, pieces, filename, out_path, result) ==
    [tool |-> tool, pc |-> "run", unique_id |-> unique_id, temp_dir |-> temp_dir,
     temp_files |-> temp_files, pieces |-> pieces, filename |-> filename,
     out_path |-> out_path, result |-> result, success |-> FALSE, http |-> 0]

\* the handler has returned: success and the HTTP status the route answers with
Returned(job, success) ==
    [job EXCEPT !.pc = "done", !.success = success, !.http = IF success THEN 200 ELSE 400]

\* a request rejected before an identifier was drawn
Rejected(tool) ==
    Returned(RunningJob(tool, "", "", <<>>, <<>>, "", "", <<>>), FALSE)

MayAccept == Len(jobs) + Len(downloads) < MaxRequests

Init ==
    /\ fs = (UPLOAD_FOLDER :> DirEntry)
    /\ jobs = <<>>
    /\ downloads = <<>>
    /\ threads = <<>>
    /\ config_delay \in ConfigDelays
    /\ calls = <<>>

\* the pieces joined last to first
RECURSIVE FlattenReversed(_)
FlattenReversed(ss) == IF ss = <<>> THEN <<>> ELSE FlattenReversed(Tail(ss)) \o Head(ss)

RECURSIVE Flatten(_)
Flatten(ss) == IF ss = <<>> THEN <<>> ELSE Head(ss) \o Flatten(Tail(ss))

(***************************************************************************)
(* services/pdf_merger.py                                                  *)
(***************************************************************************)
\* merger.write returning with the output file still unfinished
MergeWrittenEarly(f, job) == Put(f, job.out_path, FileEntry(job.result, FALSE))

\* merger.write(output_path) once it has written everything
MergeWritten(f, job) == Put(f, job.out_path, FileEntry(job.result, TRUE))

\* the names merge_files computes for the n-th processing request
MergeNames(req, n) ==
    LET v               == validate_pdf_files(req.files, 2)
        unique_id       == Uuid(n)
        temp_dir        == create_temp_directory(UPLOAD_FOLDER, unique_id)
        output_filename == secure_output_filename(req.output_filename, "merged-document.pdf")
    IN  [ok |-> v.ok, valid_files |-> v.valid_files, unique_id |-> unique_id,
         temp_dir |-> temp_dir, temp_files |-> save_uploaded_files(v.valid_files, temp_dir),
         output_filename |-> output_filename,
         output_path |-> PathJoin(temp_dir, output_filename)]

MergePlans ==
    Tabulated([req \in MergeRequests \cup MergeOrderRequests |->
                  [n \in 1..MaxRequests |-> MergeNames(req, n)]])

\* merge_files up to the moment merger.write has opened the output file
merge_files(req) ==
    /\ MayAccept
    /\ \E p \in {MergePlans[req][Len(jobs) + 1]} :
          LET staged   == SavedFiles(MakeDirs(fs, p.temp_dir), p.temp_files, p.valid_files)
              appended == \A i \in DOMAIN p.temp_files : CanRead(staged, p.temp_files[i])
              merged   == Flatten([i \in DOMAIN p.temp_files |-> staged[p.temp_files[i]].pages])
              job      == RunningJob("merge", p.unique_id, p.temp_dir, p.temp_files, <<>>,
                                     p.output_filename, p.output_path, merged)
          IN  /\ IF ~p.ok
                 THEN /\ jobs' = Append(jobs, Rejected("merge"))
                      /\ fs' = fs
                 ELSE IF ~appended
                 THEN \* merger.append raised: _merge_pdf_files returns failure
                      /\ jobs' = Append(jobs, Returned(job, FALSE))
                      /\ fs' = CleanupPass(staged, p.temp_files \o <<p.temp_dir>>)
                 ELSE /\ jobs' = Append(jobs, job)
                      /\ fs' = Put(staged, p.output_path, FileEntry(<<>>, FALSE))
              /\ UNCHANGED <<downloads, threads, config_delay, calls>>

\* the rest of merge_files: merger.write ends (written) or raises, then the
\* cleanup of that branch and the return
merge_files_return(j, written) ==
    /\ jobs[j].pc = "run"
    /\ jobs[j].tool = "merge"
    /\ IF written
       THEN /\ fs' = CleanupPass(MergeWritten(fs, jobs[j]), jobs[j].temp_files)
            /\ jobs' = [jobs EXCEPT ![j] = Returned(@, TRUE)]
       ELSE /\ fs' = CleanupPass(fs, jobs[j].temp_files \o <<jobs[j].temp_dir>>)
            /\ jobs' = [jobs EXCEPT ![j] = Returned(@, FALSE)]
    /\ UNCHANGED <<downloads, threads, config_delay, calls>>

(***************************************************************************)
(* services/pdf_splitter.py                                                *)
(***************************************************************************)
SplitRequests ==
    { [file |-> FileX, split_type |-> "pages", page_ranges |-> <<>>, output_filename |-> ""],
      [file |-> FileX, split_type |-> "ranges", page_ranges |-> <<"1-2", "9">>,
       output_filename |-> ""],
      [file |-> FileX, split_type |-> "bogus", page_ranges |-> <<>>, output_filename |-> ""],
      [file |-> FileText, split_type |-> "pages", page_ranges |-> <<>>, output_filename |-> ""] }

\* splits of documents of one and six pages, by page and by ranges: tokens
\* that differ, a token twice, tokens that clamp to one range, one page named
\* as a page and as a range
SplitMoreRequests ==
    { [file |-> FileY, split_type |-> "pages", page_ranges |-> <<>>, output_filename |-> ""],
      [file |-> FileSix, split_type |-> "pages", page_ranges |-> <<>>, output_filename |-> ""],
      [file |-> FileSix, split_type |-> "pages", page_ranges |-> <<>>,
       output_filename |-> "part"],
      [file |-> FileSix, split_type |-> "ranges", page_ranges |-> <<"1-3", "5">>,
       output_filename |-> ""],
      [file |-> FileSix, split_type |-> "ranges", page_ranges |-> <<"2", "2">>,
       output_filename |-> ""],
      [file |-> FileSix, split_type |-> "ranges", page_ranges |-> <<"1-6", "0-9", "4">>,
       output_filename |-> ""],
      [file |-> FileSix, split_type |-> "ranges", page_ranges |-> <<"3", "3-3">>,
       output_filename |-> ""] }

DigitVal(c) == CHOOSE d \in 0..9 : DigitChars[d + 1] = c

RECURSIVE ValueOf(_)
ValueOf(s) ==
    IF s = "" THEN 0 ELSE ValueOf(SubSeq(s, 1, Len(s) - 1)) * 10 + DigitVal(Ch(s, Len(s)))

\* Python's int(s) where no minus sign can reach it: surrounding blanks, one
\* leading "+", digits with single underscores between them; -1 is ValueError
ParseInt(s) ==
    LET t == Strip(s, WhiteChars)
        u == IF StartsWith(t, "+") THEN Tail(t) ELSE t
        literal == /\ u # ""
                   /\ \A i \in 1..Len(u) : Ch(u, i) \in Range(DigitChars) \cup {"_"}
                   /\ Ch(u, 1) # "_" /\ Ch(u, Len(u)) # "_"
                   /\ ~Contains(u, "__")
    IN  IF literal THEN ValueOf(KeepChars(u, Range(DigitChars))) ELSE -1

\* max with its second argument ignored
Max2First(a, b) == a

Max2(a, b) == IF a >= b THEN a ELSE b

Min2(a, b) == IF a <= b THEN a ELSE b

\* one token of page_ranges against a document of total_pages pages:
\* [ok, start, end, range_desc]; ok is FALSE on each of the three early returns
ParseRange(page_range, total_pages) ==
    LET bad == [ok |-> FALSE, start |-> 0, end |-> 0, range_desc |-> ""]
    IN  IF Contains(page_range, "-")
        THEN LET cut == Find(page_range, "-")
                 a   == ParseInt(SubSeq(page_range, 1, cut - 1))
                 b   == ParseInt(SubSeq(page_range, cut + 1, Len(page_range)))
                 start == Max2(1, a)
                 end   == Min2(total_pages, b)
             IN  IF RFind(page_range, "-") # cut \/ a < 0 \/ b < 0 THEN bad
                 ELSE IF start > end THEN bad
                 ELSE [ok |-> TRUE, start |-> start, end |-> end,
                       range_desc |-> "pages-" \o ToStr(start) \o "-to-" \o ToStr(end)]
        ELSE LET page_num == ParseInt(page_range)
             IN  IF page_num < 1 \/ page_num > total_pages THEN bad
                 ELSE [ok |-> TRUE, start |-> page_num, end |-> page_num,
                       range_desc |-> "page-" \o ToStr(page_num)]

\* the loop of _split_into_ranges from the token Head(page_ranges) on:
\* [ok, files, fs]; the files written before a bad token stay written
RECURSIVE SplitRanges(_, _, _, _, _, _)
SplitRanges(f, pages, temp_dir, output_filename, page_ranges, split_files) ==
    IF page_ranges = <<>> THEN [ok |-> TRUE, files |-> split_files, fs |-> f]
    ELSE LET r == ParseRange(Head(page_ranges), Len(pages))
             range_path == PathJoin(temp_dir, output_filename \o "-" \o r.range_desc \o ".pdf")
         IN  IF ~r.ok THEN [ok |-> FALSE, files |-> split_files, fs |-> f]
             ELSE SplitRanges(Put(f, range_path, FileEntry(SubSeq(pages, r.start, r.end), TRUE)),
                              pages, temp_dir, output_filename, Tail(page_ranges),
                              Append(split_files, range_path))

_split_into_ranges(f, input_file, temp_dir, output_filename, page_ranges) ==
    IF page_ranges = <<>> \/ ~CanRead(f, input_file)
    THEN [ok |-> FALSE, files |-> <<>>, fs |-> f]
    ELSE SplitRanges(f, f[input_file].pages, temp_dir, output_filename, page_ranges, <<>>)

\* every page written under one name
PagePathUnnumbered(temp_dir, output_filename, n) ==
    PathJoin(temp_dir, output_filename \o "-page.pdf")

PagePath(temp_dir, output_filename, n) ==
    PathJoin(temp_dir, output_filename \o "-page-" \o ToStr(n) \o ".pdf")

RECURSIVE SplitPages(_, _, _, _, _)
SplitPages(f, pages, temp_dir, output_filename, n) ==
    IF n > Len(pages) THEN f
    ELSE SplitPages(Put(f, PagePath(temp_dir, output_filename, n), FileEntry(<<pages[n]>>, TRUE)),
                    pages, temp_dir, output_filename, n + 1)

_split_into_pages(f, input_file, temp_dir, output_filename) ==
    IF ~CanRead(f, input_file) THEN [ok |-> FALSE, files |-> <<>>, fs |-> f]
    ELSE LET pages == f[input_file].pages
         IN  [ok |-> TRUE,
              files |-> [n \in 1..Len(pages) |-> PagePath(temp_dir, output_filename, n)],
              fs |-> SplitPages(f, pages, temp_dir, output_filename, 1)]

\* 'split_count' in the answer of split_pdf: result['count']
SplitCount(job) == Len(job.pieces)

\* the ZIP once _create_zip_file has written every member
ZipWritten(f, job) ==
    Put(f, job.out_path, FileEntry([i \in DOMAIN job.pieces |-> Basename(job.pieces[i])], TRUE))

\* the names split_pdf computes for the n-th processing request
SplitNames(req, n) ==
    LET v          == validate_pdf_files(<<req.file>>, 1)
        unique_id  == Uuid(n)
        temp_dir   == create_temp_directory(UPLOAD_FOLDER, unique_id)
        prefix     == IF req.output_filename = "" /\ v.ok
                      THEN SplitextRoot(v.valid_files[1].filename)
                      ELSE req.output_filename
        output_filename == secure_output_filename(prefix, "split-pdf")
        zip_filename    == output_filename \o "-split.zip"
    IN  [ok |-> v.ok, valid_files |-> v.valid_files, unique_id |-> unique_id,
         temp_dir |-> temp_dir, temp_files |-> save_uploaded_files(v.valid_files, temp_dir),
         output_filename |-> output_filename, zip_filename |-> zip_filename,
         zip_path |-> PathJoin(temp_dir, zip_filename)]

SplitPlans ==
    Tabulated([req \in SplitRequests \cup SplitMoreRequests |->
                  [n \in 1..MaxRequests |-> SplitNames(req, n)]])

\* split_pdf up to the moment _create_zip_file has opened the ZIP
split_pdf(req) ==
    /\ MayAccept
    /\ \E p \in {SplitPlans[req][Len(jobs) + 1]} :
          LET staged == SavedFiles(MakeDirs(fs, p.temp_dir), p.temp_files, p.valid_files)
              split  == IF req.split_type = "pages"
                        THEN _split_into_pages(staged, p.temp_files[1], p.temp_dir, p.output_filename)
                        ELSE _split_into_ranges(staged, p.temp_files[1], p.temp_dir,
                                                p.output_filename, req.page_ranges)
              job    == RunningJob("split", p.unique_id, p.temp_dir, p.temp_files, <<>>,
                                   p.zip_filename, p.zip_path, <<>>)
          IN  /\ IF ~p.ok
                 THEN /\ jobs' = Append(jobs, Rejected("split"))
                      /\ fs' = fs
                 ELSE IF req.split_type \notin {"pages", "ranges"}
                 THEN \* 'Invalid split type specified': returns at once
                      /\ jobs' = Append(jobs, Returned(job, FALSE))
                      /\ fs' = staged
                 ELSE IF ~split.ok
                 THEN /\ jobs' = Append(jobs, Returned([job EXCEPT !.pieces = split.files], FALSE))
                      /\ fs' = CleanupPass(split.fs, p.temp_files \o <<p.temp_dir>>)
                 ELSE /\ jobs' = Append(jobs, [job EXCEPT !.pieces = split.files])
                      /\ fs' = Put(split.fs, p.zip_path, FileEntry(<<>>, FALSE))
              /\ UNCHANGED <<downloads, threads, config_delay, calls>>

\* the rest of split_pdf: _create_zip_file returns True (written) or False
split_pdf_return(j, written) ==
    /\ jobs[j].pc = "run"
    /\ jobs[j].tool = "split"
    /\ IF written
       THEN /\ fs' = CleanupPass(ZipWritten(fs, jobs[j]), jobs[j].temp_files \o jobs[j].pieces)
            /\ jobs' = [jobs EXCEPT ![j] = Returned(@, TRUE)]
       ELSE /\ fs' = CleanupPass(fs, jobs[j].temp_files \o jobs[j].pieces
                                     \o <<jobs[j].temp_dir>>)
            /\ jobs' = [jobs EXCEPT ![j] = Returned(@, FALSE)]
    /\ UNCHANGED <<downloads, threads, config_delay, calls>>

(***************************************************************************)
(* services/pdf_to_word.py                                                 *)
(***************************************************************************)
PdfToWordRequests ==
    { [files |-> <<FileX>>, output_filename |-> ""],
      [files |-> <<FileX, FileY>>, output_filename |-> ""],
      [files |-> <<FileX, FileText>>, output_filename |-> ""],
      [files |-> <<FileText>>, output_filename |-> ""] }

\* the output name convert_file settles on
DocxFilename(requested, original_name) ==
    LET named   == IF requested = "" THEN SplitextRoot(original_name) \o ".docx" ELSE requested
        secured == secure_output_filename(named, "converted-document.docx")
    IN  IF EndsWith(secured, ".docx") THEN secured ELSE SplitextRoot(secured) \o ".docx"

\* the names convert_file computes for the n-th processing request
PdfToWordNames(req, n) ==
    LET v          == validate_pdf_files(req.files, 1)
        unique_id  == Uuid(n)
        temp_dir   == create_temp_directory(UPLOAD_FOLDER, unique_id)
        output_filename == IF v.ok
                           THEN DocxFilename(req.output_filename, v.valid_files[1].filename)
                           ELSE ""
    IN  [ok |-> v.ok, valid_files |-> v.valid_files, unique_id |-> unique_id,
         temp_dir |-> temp_dir, temp_files |-> save_uploaded_files(v.valid_files, temp_dir),
         output_filename |-> output_filename,
         output_path |-> PathJoin(temp_dir, output_filename)]

PdfToWordPlans ==
    Tabulated([req \in PdfToWordRequests |-> [n \in 1..MaxRequests |-> PdfToWordNames(req, n)]])

\* convert_file up to the moment converter.convert has opened the output
convert_file(req) ==
    /\ MayAccept
    /\ \E p \in {PdfToWordPlans[req][Len(jobs) + 1]} :
          LET staged == SavedFiles(MakeDirs(fs, p.temp_dir), p.temp_files, p.valid_files)
              job    == RunningJob("pdf2word", p.unique_id, p.temp_dir, p.temp_files, <<>>,
                                   p.output_filename, p.output_path, <<>>)
          IN  /\ IF ~p.ok \/ Len(p.valid_files) > 1
                 THEN /\ jobs' = Append(jobs, Rejected("pdf2word"))
                      /\ fs' = fs
                 ELSE IF p.temp_files = <<>>
                 THEN \* "Failed to save uploaded file"
                      /\ jobs' = Append(jobs, Returned(job, FALSE))
                      /\ fs' = staged
                 ELSE IF ~CanRead(staged, p.temp_files[1])
                 THEN /\ jobs' = Append(jobs, Returned(job, FALSE))
                      /\ fs' = CleanupPass(staged, p.temp_files \o <<p.temp_dir>>)
                 ELSE /\ jobs' = Append(jobs, [job EXCEPT !.result = staged[p.temp_files[1]].pages])
                      /\ fs' = Put(staged, p.output_path, FileEntry(<<>>, FALSE))
              /\ UNCHANGED <<downloads, threads, config_delay, calls>>

\* the converter has written the whole document
DocumentWritten(f, job) == Put(f, job.out_path, FileEntry(job.result, TRUE))

\* the rest of convert_file: the conversion ends (written) or raises
convert_file_return(j, written) ==
    /\ jobs[j].pc = "run"
    /\ jobs[j].tool = "pdf2word"
    /\ IF written
       THEN /\ fs' = CleanupPass(DocumentWritten(fs, jobs[j]), jobs[j].temp_files)
            /\ jobs' = [jobs EXCEPT ![j] = Returned(@, TRUE)]
       ELSE /\ fs' = CleanupPass(fs, jobs[j].temp_files \o <<jobs[j].temp_dir>>)
            /\ jobs' = [jobs EXCEPT ![j] = Returned(@, FALSE)]
    /\ UNCHANGED <<downloads, threads, config_delay, calls>>

(***************************************************************************)
(* services/word_to_pdf.py                                                 *)
(***************************************************************************)
WordToPdfRequests ==
    { [file |-> FileDocx, output_filename |-> ""],
      [file |-> FileText, output_filename |-> ""] }

\* a validation that lets every document with a file name through
AcceptAnyNamedFile(files) ==
    IF files = <<>> \/ files[1].filename = "" THEN [ok |-> FALSE, valid_files |-> <<>>]
    ELSE [ok |-> TRUE, valid_files |-> <<files[1]>>]

\* the 16 MB size check is never the one that fails: the HTTP layer has
\* already refused larger bodies (MAX_CONTENT_LENGTH)
_validate_word_file(files) ==
    IF files = <<>> THEN [ok |-> FALSE, valid_files |-> <<>>]
    ELSE IF files[1].filename = "" THEN [ok |-> FALSE, valid_files |-> <<>>]
    ELSE IF SplitextExt(Lower(files[1].filename)) \notin {".docx", ".doc"}
         THEN [ok |-> FALSE, valid_files |-> <<>>]
    ELSE [ok |-> TRUE, valid_files |-> <<files[1]>>]

PdfFilename(requested, original_name) ==
    LET named == IF requested = "" THEN SplitextRoot(original_name) \o ".pdf"
                 ELSE IF EndsWith(requested, ".pdf") THEN requested
                 ELSE requested \o ".pdf"
    IN  secure_output_filename(named, "word-to-pdf.pdf")

\* the names convert_word_to_pdf computes for the n-th processing request
WordToPdfNames(req, n) ==
    LET v          == _validate_word_file(<<req.file>>)
        unique_id  == Uuid(n)
        temp_dir   == create_temp_directory(UPLOAD_FOLDER, unique_id)
        output_filename == IF v.ok
                           THEN PdfFilename(req.output_filename, v.valid_files[1].filename)
                           ELSE ""
    IN  [ok |-> v.ok, valid_files |-> v.valid_files, unique_id |-> unique_id,
         temp_dir |-> temp_dir, temp_files |-> save_uploaded_files(v.valid_files, temp_dir),
         output_filename |-> output_filename,
         output_path |-> PathJoin(temp_dir, output_filename)]

WordToPdfPlans ==
    Tabulated([req \in WordToPdfRequests |-> [n \in 1..MaxRequests |-> WordToPdfNames(req, n)]])

\* convert_word_to_pdf up to the moment pdf_doc.build has opened the output
convert_word_to_pdf(req) ==
    /\ MayAccept
    /\ \E p \in {WordToPdfPlans[req][Len(jobs) + 1]} :
          LET staged == SavedFiles(MakeDirs(fs, p.temp_dir), p.temp_files, p.valid_files)
              job    == RunningJob("word2pdf", p.unique_id, p.temp_dir, p.temp_files, <<>>,
                                   p.output_filename, p.output_path, <<>>)
          IN  /\ IF ~p.ok
                 THEN /\ jobs' = Append(jobs, Rejected("word2pdf"))
                      /\ fs' = fs
                 ELSE IF ~CanRead(staged, p.temp_files[1])
                 THEN /\ jobs' = Append(jobs, Returned(job, FALSE))
                      /\ fs' = CleanupPass(staged, p.temp_files \o <<p.temp_dir>>)
                 ELSE /\ jobs' = Append(jobs, [job EXCEPT !.result = staged[p.temp_files[1]].pages])
                      /\ fs' = Put(staged, p.output_path, FileEntry(<<>>, FALSE))
              /\ UNCHANGED <<downloads, threads, config_delay, calls>>

\* the rest of convert_word_to_pdf: the build ends (written) or raises
convert_word_to_pdf_return(j, written) ==
    /\ jobs[j].pc = "run"
    /\ jobs[j].tool = "word2pdf"
    /\ IF written
       THEN /\ fs' = CleanupPass(DocumentWritten(fs, jobs[j]), jobs[j].temp_files)
            /\ jobs' = [jobs EXCEPT ![j] = Returned(@, TRUE)]
       ELSE /\ fs' = CleanupPass(fs, jobs[j].temp_files \o <<jobs[j].temp_dir>>)
            /\ jobs' = [jobs EXCEPT ![j] = Returned(@, FALSE)]
    /\ UNCHANGED <<downloads, threads, config_delay, calls>>

(***************************************************************************)
(* services/pdf_compressor.py                                              *)
(***************************************************************************)
CompressRequests ==
    { [file |-> FileX, output_filename |-> "", compression_level |-> "medium"],
      [file |-> FileX, output_filename |-> "small.pdf", compression_level |-> "medium"],
      [file |-> FileText, output_filename |-> "", compression_level |-> "medium"] }

CompressedFilename(requested, original_name) ==
    secure_filename(IF Strip(requested, WhiteChars) = ""
                    THEN SplitextRoot(original_name) \o "_compressed.pdf"
                    ELSE IF EndsWith(requested, ".pdf") THEN requested
                    ELSE requested \o ".pdf")

\* the temporary path built without the identifier
FlatTempPathNoId(unique_id, original_name) ==
    PathJoin(UPLOAD_FOLDER, "temp_" \o "_" \o secure_filename(original_name))

\* temp_path of compress_pdf and of the image conversions
FlatTempPath(unique_id, original_name) ==
    PathJoin(UPLOAD_FOLDER, "temp_" \o unique_id \o "_" \o secure_filename(original_name))

\* output_path of compress_pdf and convert_images_to_pdf
FlatOutputPath(unique_id, output_filename) ==
    PathJoin(UPLOAD_FOLDER, unique_id \o "_" \o output_filename)

\* if os.path.exists(p): os.remove(p), for each p in turn
RECURSIVE RemoveExisting(_, _)
RemoveExisting(f, paths) ==
    IF paths = <<>> THEN f
    ELSE RemoveExisting(IF Exists(f, Head(paths)) THEN Remove(f, Head(paths)) ELSE f,
                        Tail(paths))

\* the names compress_pdf computes for the n-th processing request
CompressNames(req, n) ==
    LET unique_id       == Uuid(n)
        output_filename == CompressedFilename(req.output_filename, req.file.filename)
    IN  [ok |-> req.file.filename # "" /\ EndsWith(Lower(req.file.filename), ".pdf"),
         unique_id |-> unique_id,
         temp_path |-> FlatTempPath(unique_id, req.file.filename),
         output_filename |-> output_filename,
         output_path |-> FlatOutputPath(unique_id, output_filename)]

CompressPlans ==
    Tabulated([req \in CompressRequests |-> [n \in 1..MaxRequests |-> CompressNames(req, n)]])

\* compress_pdf up to the moment a strategy has opened the output file;
\* neither strategy opens it when it cannot parse the input
compress_pdf(req) ==
    /\ MayAccept
    /\ \E p \in {CompressPlans[req][Len(jobs) + 1]} :
          LET staged == SaveUpload(fs, p.temp_path, req.file)
              job    == RunningJob("compress", p.unique_id, "", <<p.temp_path>>, <<>>,
                                   p.output_filename, p.output_path, req.file.pages)
          IN  /\ IF ~p.ok
                 THEN /\ jobs' = Append(jobs, Rejected("compress"))
                      /\ fs' = fs
                 ELSE IF ~CanRead(staged, p.temp_path)
                 THEN /\ jobs' = Append(jobs, Returned(job, FALSE))
                      /\ fs' = RemoveExisting(staged, <<p.temp_path>>)
                 ELSE /\ jobs' = Append(jobs, [job EXCEPT !.result = staged[p.temp_path].pages])
                      /\ fs' = Put(staged, p.output_path, FileEntry(<<>>, FALSE))
              /\ UNCHANGED <<downloads, threads, config_delay, calls>>

\* the rest of compress_pdf: _compress_pdf_file returns True (written) or
\* False (both strategies gave up), the temporary copy is removed
compress_pdf_return(j, written) ==
    /\ jobs[j].pc = "run"
    /\ jobs[j].tool = "compress"
    /\ IF written
       THEN /\ fs' = RemoveExisting(DocumentWritten(fs, jobs[j]), jobs[j].temp_files)
            /\ jobs' = [jobs EXCEPT ![j] = Returned(@, TRUE)]
       ELSE /\ fs' = RemoveExisting(fs, jobs[j].temp_files)
            /\ jobs' = [jobs EXCEPT ![j] = Returned(@, FALSE)]
    /\ UNCHANGED <<downloads, threads, config_delay, calls>>

(***************************************************************************)
(* services/image_to_pdf.py                                                *)
(***************************************************************************)
IMAGE_ALLOWED_EXTENSIONS == {"jpg", "jpeg", "png", "gif", "bmp", "tiff", "webp"}

MARGIN_SETTINGS == [none |-> 0, small |-> 36, medium |-> 72, large |-> 144]

ImageRequests ==
    { [files |-> <<FilePng>>, output_filename |-> "", margin_size |-> "medium"],
      [files |-> <<FileText>>, output_filename |-> "", margin_size |-> "medium"],
      [files |-> <<>>, output_filename |-> "", margin_size |-> "medium"] }

FileJpg == [filename |-> "j.JPG", pages |-> <<"j1">>]

\* a second picture uploaded under the name of the first
FilePngAgain == [filename |-> "p.png", pages |-> <<"q1">>]

\* a picture uploaded under a name secure_filename maps to that of the first
FilePngPath == [filename |-> "../p.png", pages |-> <<"r1">>]

\* a file named as a picture that Image.open cannot read
FileBadPng == [filename |-> "bad.png", pages |-> <<>>]

\* conversions of one, two and three pictures in several orders, with every
\* margin name and names that are no margin, uploads the validation drops,
\* equal file names and a picture that cannot be read
ImageMoreRequests ==
    { [files |-> <<FilePng, FileJpg>>, output_filename |-> "", margin_size |-> "large"],
      [files |-> <<FileJpg, FilePng>>, output_filename |-> "", margin_size |-> "none"],
      [files |-> <<FileJpg>>, output_filename |-> "album", margin_size |-> "small"],
      [files |-> <<FilePng, FileText, FileJpg>>, output_filename |-> "",
       margin_size |-> "huge"],
      [files |-> <<FileJpg>>, output_filename |-> "", margin_size |-> ""],
      [files |-> <<FilePng, FilePngAgain, FileJpg>>, output_filename |-> "",
       margin_size |-> "medium"],
      [files |-> <<FilePng, FilePngPath>>, output_filename |-> "", margin_size |-> "medium"],
      [files |-> <<FilePng, FileBadPng>>, output_filename |-> "", margin_size |-> "medium"] }

is_allowed_file(filename) ==
    /\ Contains(filename, ".")
    /\ Lower(SubSeq(filename, RFind(filename, ".") + 1, Len(filename)))
           \in IMAGE_ALLOWED_EXTENSIONS

IsValidImage(file) == file.filename # "" /\ is_allowed_file(file.filename)

ImagesFilename(requested, unique_id) ==
    secure_filename(IF Strip(requested, WhiteChars) = ""
                    THEN "images-to-pdf-" \o SubSeq(unique_id, 1, 8) \o ".pdf"
                    ELSE IF EndsWith(requested, ".pdf") THEN requested
                    ELSE requested \o ".pdf")

\* an unknown margin name taken as no margin
MarginOrNone(margin_size) ==
    IF margin_size \in DOMAIN MARGIN_SETTINGS THEN margin_size ELSE "none"

\* if margin_size not in self.MARGIN_SETTINGS: margin_size = 'medium'
MarginOrMedium(margin_size) ==
    IF margin_size \in DOMAIN MARGIN_SETTINGS THEN margin_size ELSE "medium"

\* the pictures drawn one to a page, each inside the margin
PagesWithMargin(pictures, margin) ==
    [i \in DOMAIN pictures |-> pictures[i] \o "@" \o ToStr(margin)]

\* the loop of _convert_images_with_margins from Head(files) on:
\* [ok, pages, fs]; an image that cannot be opened ends it, the temporary
\* copies made so far removed
RECURSIVE DrawImages(_, _, _, _, _)
DrawImages(f, files, temp_files, k, pages) ==
    IF files = <<>> THEN [ok |-> TRUE, pages |-> pages, fs |-> f]
    ELSE LET saved == SaveUpload(f, temp_files[k], Head(files))
         IN  IF ~CanRead(saved, temp_files[k])
             THEN [ok |-> FALSE, pages |-> pages,
                   fs |-> RemoveExisting(saved, SubSeq(temp_files, 1, k))]
             ELSE DrawImages(saved, Tail(files), temp_files, k + 1,
                             pages \o saved[temp_files[k]].pages)

\* the names convert_images_to_pdf computes for the n-th processing request
ImageNames(req, n) ==
    LET valid_files     == SelectSeq(req.files, IsValidImage)
        unique_id       == Uuid(n)
        output_filename == ImagesFilename(req.output_filename, unique_id)
    IN  [ok |-> req.files # <<>> /\ valid_files # <<>>, valid_files |-> valid_files,
         unique_id |-> unique_id,
         temp_files |-> [k \in DOMAIN valid_files |->
                            FlatTempPath(unique_id, valid_files[k].filename)],
         margin |-> MARGIN_SETTINGS[MarginOrMedium(req.margin_size)],
         output_filename |-> output_filename,
         output_path |-> FlatOutputPath(unique_id, output_filename)]

ImagePlans ==
    Tabulated([req \in ImageRequests \cup ImageMoreRequests |->
                  [n \in 1..MaxRequests |-> ImageNames(req, n)]])

\* convert_images_to_pdf up to the moment c.save() has opened the output
convert_images_to_pdf(req) ==
    /\ MayAccept
    /\ \E p \in {ImagePlans[req][Len(jobs) + 1]} :
          LET drawn == DrawImages(fs, p.valid_files, p.temp_files, 1, <<>>)
              job   == RunningJob("image", p.unique_id, "", p.temp_files, <<>>,
                                  p.output_filename, p.output_path, <<>>)
          IN  /\ IF ~p.ok
                 THEN /\ jobs' = Append(jobs, Rejected("image"))
                      /\ fs' = fs
                 ELSE IF ~drawn.ok
                 THEN /\ jobs' = Append(jobs, Returned(job, FALSE))
                      /\ fs' = drawn.fs
                 ELSE /\ jobs' = Append(jobs, [job EXCEPT !.result =
                                                    PagesWithMargin(drawn.pages, p.margin)])
                      /\ fs' = Put(drawn.fs, p.output_path, FileEntry(<<>>, FALSE))
              /\ UNCHANGED <<downloads, threads, config_delay, calls>>

\* the rest of convert_images_to_pdf: c.save() ends (written), the temporary
\* copies are removed; or it raises and the method returns False at once
convert_images_to_pdf_return(j, written) ==
    /\ jobs[j].pc = "run"
    /\ jobs[j].tool = "image"
    /\ IF written
       THEN /\ fs' = RemoveExisting(DocumentWritten(fs, jobs[j]), jobs[j].temp_files)
            /\ jobs' = [jobs EXCEPT ![j] = Returned(@, TRUE)]
       ELSE /\ fs' = fs
            /\ jobs' = [jobs EXCEPT ![j] = Returned(@, FALSE)]
    /\ UNCHANGED <<downloads, threads, config_delay, calls>>

(***************************************************************************)
(* routes/pdf_routes.py: the download endpoint, and the cleanup threads.   *)
(***************************************************************************)
\* the service download_file picks from the file name
DownloadService(filename) ==
    IF EndsWith(filename, ".docx") THEN "pdf2word"
    ELSE IF StartsWith(filename, "images-to-pdf") THEN "image"
    ELSE IF Contains(filename, "compressed") THEN "compress"
    ELSE IF Contains(filename, "split") /\ EndsWith(filename, ".zip") THEN "split"
    ELSE IF StartsWith(filename, "word-to-pdf") \/ Contains(filename, "word-to-pdf")
         THEN "word2pdf"
    ELSE "merge"

\* get_file_path of the picked service
get_file_path(service, unique_id, filename) ==
    IF service \in WorkspaceTools
    THEN PathJoin(PathJoin(UPLOAD_FOLDER, unique_id), filename)
    ELSE PathJoin(UPLOAD_FOLDER, unique_id \o "_" \o secure_filename(filename))

\* delay=None of cleanup_processed_file
None == -1

\* cleanup_delay = delay or current_app.config.get('CLEANUP_DELAY', 10)
CleanupDelay(service, delay) ==
    IF service \in WorkspaceTools
    THEN (IF delay = None \/ delay = 0 THEN config_delay ELSE delay)
    ELSE FixedCleanupSleep

\* cleanup_processed_file handing over the file alone, not its directory
CleanupPathsFileOnly(service, file_path) == <<file_path>>

\* the paths cleanup_processed_file of the service hands to its cleanup
CleanupPaths(service, file_path) ==
    IF service \in WorkspaceTools THEN <<file_path, Dirname(file_path)>> ELSE <<file_path>>

\* what a client has been told: the (unique_id, filename) of every success
Requestable ==
    {<<jobs[j].unique_id, jobs[j].filename>> :
        j \in {k \in DOMAIN jobs : jobs[k].pc = "done" /\ jobs[k].success}}

\* every (unique_id, filename) a success response to the n-th request can carry
ResultPairsOf(n) ==
    {<<MergePlans[r][n].unique_id, MergePlans[r][n].output_filename>> : r \in MergeRequests}
    \cup {<<SplitPlans[r][n].unique_id, SplitPlans[r][n].zip_filename>> : r \in SplitRequests}
    \cup {<<PdfToWordPlans[r][n].unique_id, PdfToWordPlans[r][n].output_filename>> :
             r \in PdfToWordRequests}
    \cup {<<WordToPdfPlans[r][n].unique_id, WordToPdfPlans[r][n].output_filename>> :
             r \in WordToPdfRequests}
    \cup {<<CompressPlans[r][n].unique_id, CompressPlans[r][n].output_filename>> :
             r \in CompressRequests}
    \cup {<<ImagePlans[r][n].unique_id, ImagePlans[r][n].output_filename>> :
             r \in ImageRequests}

ResultPairs == UNION {ResultPairsOf(n) : n \in 1..MaxRequests}

\* identifiers a client can put in the URL without having been given them: the
\* <unique_id> converter of the route takes any text without a "/"
ForgedIds == {"..", "0"}

\* file names such a client asks for
ForgedNames == {"app.py", "merged-document.pdf", "compressed.pdf"}

ForgedPairs == ForgedIds \X ForgedNames

\* a file of the application, beside the upload root
AppFile == "app.py"

Normpaths(paths) == [i \in DOMAIN paths |-> Normpath(paths[i])]

\* the names download_file computes for a request; real_path and paths are the
\* entries the operating system reaches for file_path and for the paths
\* cleanup_processed_file hands to cleanup_files
DownloadNames(unique_id, requested) ==
    LET filename  == secure_filename(requested)
        service   == DownloadService(filename)
        file_path == get_file_path(service, unique_id, filename)
    IN  [filename |-> filename, service |-> service, file_path |-> file_path,
         real_path |-> Normpath(file_path),
         paths |-> Normpaths(CleanupPaths(service, file_path))]

\* every (unique_id, filename) a download request of the model names
DownloadPairs == ResultPairs \cup ForgedPairs

DownloadPlans == Tabulated([r \in DownloadPairs |-> DownloadNames(r[1], r[2])])

\* a handler that never takes the "File not found or has expired" branch
NotFoundNever(f, path) == FALSE

\* if not os.path.exists(file_path): flash the notice and redirect
NotFound(f, path) == ~Exists(f, path)

\* download_file up to the moment send_file has opened the file
download_file(unique_id, requested) ==
    /\ MayAccept
    /\ \E p \in {DownloadPlans[<<unique_id, requested>>]} :
          LET delay     == CleanupDelay(p.service, None)
              after     == IF CleanupRunsInThread(delay) THEN fs ELSE CleanupPass(fs, p.paths)
              d         == [unique_id |-> unique_id, filename |-> p.filename, service |-> p.service,
                            file_path |-> p.file_path, delay |-> delay, pc |-> "notfound"]
          IN  /\ IF NotFound(fs, p.real_path)
                 THEN /\ downloads' = Append(downloads, d)
                      /\ UNCHANGED <<fs, threads>>
                 ELSE /\ fs' = after
                      /\ threads' = IF CleanupRunsInThread(delay)
                                    THEN Append(threads, [paths |-> p.paths, delay |-> delay,
                                                          download |-> Len(downloads) + 1,
                                                          pc |-> "sleeping"])
                                    ELSE threads
                      /\ downloads' = Append(downloads,
                                             [d EXCEPT !.pc = IF IsFile(after, p.real_path)
                                                              THEN "streaming" ELSE "error"])
              /\ UNCHANGED <<jobs, config_delay, calls>>

\* send_file has transferred the last byte
send_file_done(d) ==
    /\ downloads[d].pc = "streaming"
    /\ downloads' = [downloads EXCEPT ![d].pc = "done"]
    /\ UNCHANGED <<fs, jobs, threads, config_delay, calls>>

\* a cleanup thread wakes from its sleep and makes its pass
delayed_cleanup(t) ==
    /\ threads[t].pc = "sleeping"
    /\ fs' = CleanupPass(fs, threads[t].paths)
    /\ threads' = [threads EXCEPT ![t].pc = "done"]
    /\ UNCHANGED <<jobs, downloads, config_delay, calls>>

Next ==
    \/ \E req \in MergeRequests : merge_files(req)
    \/ \E j \in DOMAIN jobs, written \in BOOLEAN : merge_files_return(j, written)
    \/ \E req \in SplitRequests : split_pdf(req)
    \/ \E j \in DOMAIN jobs, written \in BOOLEAN : split_pdf_return(j, written)
    \/ \E req \in PdfToWordRequests : convert_file(req)
    \/ \E j \in DOMAIN jobs, written \in BOOLEAN : convert_file_return(j, written)
    \/ \E req \in WordToPdfRequests : convert_word_to_pdf(req)
    \/ \E j \in DOMAIN jobs, written \in BOOLEAN : convert_word_to_pdf_return(j, written)
    \/ \E req \in CompressRequests : compress_pdf(req)
    \/ \E j \in DOMAIN jobs, written \in BOOLEAN : compress_pdf_return(j, written)
    \/ \E req \in ImageRequests : convert_images_to_pdf(req)
    \/ \E j \in DOMAIN jobs, written \in BOOLEAN : convert_images_to_pdf_return(j, written)
    \/ \E r \in Requestable : download_file(r[1], r[2])
    \/ \E d \in DOMAIN downloads : send_file_done(d)
    \/ \E t \in DOMAIN threads : delayed_cleanup(t)

Spec == Init /\ [][Next]_vars

(***************************************************************************)
(* cleanup_files called directly, on a workspace in any condition.         *)
(***************************************************************************)
\* paths a call lists at most
MaxPaths == 3

CleanupDir == create_temp_directory(UPLOAD_FOLDER, Uuid(9))

CleanupStaged == PathJoin(CleanupDir, "temp_0_x.pdf")

CleanupLocked == PathJoin(CleanupDir, "locked.pdf")

\* the upload root with the workspace absent, empty, or holding some files
CleanupLayouts ==
    {(UPLOAD_FOLDER :> DirEntry)}
    \cup {[q \in {UPLOAD_FOLDER, CleanupDir} \cup held |->
              IF q \in {UPLOAD_FOLDER, CleanupDir} THEN DirEntry
              ELSE FileEntry(<<"x1">>, TRUE)] :
           held \in SUBSET {CleanupStaged, CleanupLocked}}

SeqsUpTo(S, n) == UNION {[1..k -> S] : k \in 0..n}

CleanupLists == SeqsUpTo({CleanupStaged, CleanupLocked, CleanupDir}, MaxPaths)

CleanupInit ==
    /\ fs \in CleanupLayouts
    /\ jobs = <<>>
    /\ downloads = <<>>
    /\ threads = <<>>
    /\ config_delay = 10
    /\ calls = <<>>

\* cleanup_files(file_paths, delay) from the call to its return
cleanup_files(file_paths, delay) ==
    /\ calls = <<>>
    /\ \E r \in {CleanupLoop(fs, file_paths)} :
          LET call == [op |-> "cleanup_files", file_paths |-> file_paths, delay |-> delay,
                       before |-> fs, pc |-> "returned"]
          IN  IF CleanupRunsInThread(delay)
              THEN /\ threads' = Append(threads, [paths |-> file_paths, delay |-> delay,
                                                  download |-> 0, pc |-> "sleeping"])
                   /\ fs' = fs
                   /\ calls' = Append(calls, call)
              ELSE /\ threads' = threads
                   /\ fs' = r.fs
                   /\ calls' = Append(calls, IF r.exc = "" THEN call
                                             ELSE [call EXCEPT !.pc = "raised"])
    /\ UNCHANGED <<jobs, downloads, config_delay>>

CleanupNext ==
    \/ \E file_paths \in CleanupLists, delay \in ConfigDelays : cleanup_files(file_paths, delay)
    \/ \E t \in DOMAIN threads : delayed_cleanup(t)

CleanupSpec == CleanupInit /\ [][CleanupNext]_vars

(***************************************************************************)
(* validate_pdf_files called directly.                                      *)
(***************************************************************************)
\* uploads a validated request carries at most
MaxUploads == 3

\* min_files of the callers: 2 for merge, 1 for split and PDF to Word
MinFiles == {1, 2}

ValidateUploads ==
    { FileX, FileText, FileNone,
      [filename |-> "Y.PDF", pages |-> <<"y1">>],
      [filename |-> "pdf", pages |-> <<"q1">>],
      [filename |-> "a.pdf.txt", pages |-> <<"a1">>] }

ValidateInit ==
    /\ fs = (UPLOAD_FOLDER :> DirEntry)
    /\ jobs = <<>>
    /\ downloads = <<>>
    /\ threads = <<>>
    /\ config_delay = 10
    /\ calls = <<>>

validate_pdf_files_call(files, min_files) ==
    /\ calls = <<>>
    /\ \E v \in {validate_pdf_files(files, min_files)} :
          calls' = Append(calls, [op |-> "validate_pdf_files", files |-> files,
                                  min_files |-> min_files, ok |-> v.ok,
                                  valid_files |-> v.valid_files])
    /\ UNCHANGED <<fs, jobs, downloads, threads, config_delay>>

ValidateNext ==
    \E files \in SeqsUpTo(ValidateUploads, MaxUploads), min_files \in MinFiles :
       validate_pdf_files_call(files, min_files)

ValidateSpec == ValidateInit /\ [][ValidateNext]_vars

(***************************************************************************)
(* save_uploaded_files called directly.                                    *)
(***************************************************************************)
\* uploads of one batch at most: the enumerate index reaches two digits
MaxBatch == 12

\* batches of any names at most this long
MaxMixed == 3

StagingDir == create_temp_directory(UPLOAD_FOLDER, Uuid(9))

\* names made of digits and underscores, for batches of every length
DigitUploads ==
    { [filename |-> "1_x.pdf", pages |-> <<"a1">>],
      [filename |-> "x.pdf", pages |-> <<"b1">>] }

\* names with separators, dots only, a staged name, no name
MixedUploads ==
    { FileX, FileNone,
      [filename |-> "../../x.pdf", pages |-> <<"c1">>],
      [filename |-> "..", pages |-> <<"d1">>],
      [filename |-> "temp_1_x.pdf", pages |-> <<"e1">>],
      [filename |-> "0_x.pdf", pages |-> <<"f1">>] }

StagingBatches == SeqsUpTo(DigitUploads, MaxBatch) \cup SeqsUpTo(MixedUploads, MaxMixed)

StagingInit ==
    /\ fs = (UPLOAD_FOLDER :> DirEntry) @@ (StagingDir :> DirEntry)
    /\ jobs = <<>>
    /\ downloads = <<>>
    /\ threads = <<>>
    /\ config_delay = 10
    /\ calls = <<>>

save_uploaded_files_call(files, temp_dir) ==
    /\ calls = <<>>
    /\ \E temp_files \in {save_uploaded_files(files, temp_dir)} :
          /\ fs' = SavedFiles(fs, temp_files, files)
          /\ calls' = Append(calls, [op |-> "save_uploaded_files", files |-> files,
                                     temp_dir |-> temp_dir, temp_files |-> temp_files])
    /\ UNCHANGED <<jobs, downloads, threads, config_delay>>

StagingNext == \E files \in StagingBatches : save_uploaded_files_call(files, StagingDir)

StagingSpec == StagingInit /\ [][StagingNext]_vars

\* the application serving clients that also request downloads they were never
\* given the address of; its directory holds app.py beside the upload root
OpenInit ==
    /\ fs = (UPLOAD_FOLDER :> DirEntry) @@ (AppFile :> FileEntry(<<"code">>, TRUE))
    /\ jobs = <<>>
    /\ downloads = <<>>
    /\ threads = <<>>
    /\ config_delay \in ConfigDelays
    /\ calls = <<>>

OpenNext ==
    \/ \E req \in MergeRequests : merge_files(req)
    \/ \E j \in DOMAIN jobs, written \in BOOLEAN : merge_files_return(j, written)
    \/ \E req \in CompressRequests : compress_pdf(req)
    \/ \E j \in DOMAIN jobs, written \in BOOLEAN : compress_pdf_return(j, written)
    \/ \E r \in Requestable \cup ForgedPairs : download_file(r[1], r[2])
    \/ \E d \in DOMAIN downloads : send_file_done(d)
    \/ \E t \in DOMAIN threads : delayed_cleanup(t)

OpenSpec == OpenInit /\ [][OpenNext]_vars

\* a request handler that has been entered runs on to its return, a response
\* that has begun is transferred to its end, and a started cleanup thread wakes;
\* nothing obliges a client to send a request
FairSpec ==
    /\ Spec
    /\ WF_vars(\E j \in DOMAIN jobs, written \in BOOLEAN : merge_files_return(j, written))
    /\ WF_vars(\E j \in DOMAIN jobs, written \in BOOLEAN : split_pdf_return(j, written))
    /\ WF_vars(\E j \in DOMAIN jobs, written \in BOOLEAN : convert_file_return(j, written))
    /\ WF_vars(\E j \in DOMAIN jobs, written \in BOOLEAN : convert_word_to_pdf_return(j, written))
    /\ WF_vars(\E j \in DOMAIN jobs, written \in BOOLEAN : compress_pdf_return(j, written))
    /\ WF_vars(\E j \in DOMAIN jobs, written \in BOOLEAN :
                   convert_images_to_pdf_return(j, written))
    /\ WF_vars(\E d \in DOMAIN downloads : send_file_done(d))
    /\ WF_vars(\E t \in DOMAIN threads : delayed_cleanup(t))

(***************************************************************************)
(* The services called directly, one entry point at a time, with faults in *)
(* the calls their bodies make.                                            *)
(***************************************************************************)
MaxServiceCalls == 1

\* the exceptions a call in the body of an entry point raises: os.remove,
\* os.path.getsize and file.save (OSError), int and PdfReader (ValueError),
\* the compression ratio of an empty input (ZeroDivisionError)
EntryFaults == {"OSError", "ValueError", "ZeroDivisionError"}

\* an entry point with no handler around its body: the exception goes on
EntryExceptMissing(exc) == exc

\* except Exception as e: return False, '...' + str(e) -- what still propagates
EntryExcept(exc) == ""

\* the exception left the entry point and the route answers 500
Raised(job) == [job EXCEPT !.pc = "raised", !.http = 500]

\* a call in the body of the entry point raises while the request is handled:
\* control passes to the handler of the outer try, which returns at once
entry_point_except(j, exc) ==
    /\ jobs[j].pc = "run"
    /\ jobs' = [jobs EXCEPT ![j] = IF EntryExcept(exc) = "" THEN Returned(@, FALSE)
                                   ELSE Raised(@)]
    /\ UNCHANGED <<fs, downloads, threads, config_delay, calls>>

MayCall == Len(jobs) < MaxServiceCalls

ServiceNext ==
    \/ \E req \in MergeRequests \cup MergeOrderRequests : MayCall /\ merge_files(req)
    \/ \E j \in DOMAIN jobs, written \in BOOLEAN : merge_files_return(j, written)
    \/ \E req \in SplitRequests \cup SplitMoreRequests : MayCall /\ split_pdf(req)
    \/ \E j \in DOMAIN jobs, written \in BOOLEAN : split_pdf_return(j, written)
    \/ \E req \in PdfToWordRequests : MayCall /\ convert_file(req)
    \/ \E j \in DOMAIN jobs, written \in BOOLEAN : convert_file_return(j, written)
    \/ \E req \in WordToPdfRequests : MayCall /\ convert_word_to_pdf(req)
    \/ \E j \in DOMAIN jobs, written \in BOOLEAN : convert_word_to_pdf_return(j, written)
    \/ \E req \in CompressRequests : MayCall /\ compress_pdf(req)
    \/ \E j \in DOMAIN jobs, written \in BOOLEAN : compress_pdf_return(j, written)
    \/ \E req \in ImageRequests \cup ImageMoreRequests :
          MayCall /\ convert_images_to_pdf(req)
    \/ \E j \in DOMAIN jobs, written \in BOOLEAN : convert_images_to_pdf_return(j, written)
    \/ \E j \in DOMAIN jobs, exc \in EntryFaults : entry_point_except(j, exc)

ServiceSpec == Init /\ [][ServiceNext]_vars

(***************************************************************************)
(* _split_into_ranges called directly on a staged document.                *)
(***************************************************************************)
MaxRangeCalls == 1

\* the largest number written in a token
MaxPageNumber == 10

RangeDir == PathJoin(UPLOAD_FOLDER, Uuid(1))

RangeInput == PathJoin(RangeDir, "temp_0_s.pdf")

PageCounts == {1, 2, 6}

\* the pages of the staged document of total_pages pages
Document(total_pages) == [n \in 1..total_pages |-> "s" \o ToStr(n)]

\* the tokens sent, each with the numbers it was written from: 'a-b' (range),
\* 'n' (page), or text of neither form (malformed)
RangeTokens ==
    Tabulated({[token |-> ToStr(a) \o "-" \o ToStr(b), form |-> "range", a |-> a, b |-> b] :
                  a \in 0..MaxPageNumber, b \in 0..MaxPageNumber})

PageTokens ==
    Tabulated({[token |-> ToStr(n), form |-> "page", a |-> n, b |-> n] : n \in 0..MaxPageNumber}
              \cup {[token |-> " 2 ", form |-> "page", a |-> 2, b |-> 2],
                    [token |-> "+1", form |-> "page", a |-> 1, b |-> 1]})

MalformedTokens ==
    {[token |-> t, form |-> "malformed", a |-> 0, b |-> 0] :
        t \in {"", "x", "a-b", "1-2-3", "-1-3", "-2", "2-", "1,3", "1.5", "1 2"}}

ExampleTokens ==
    {t \in RangeTokens \cup PageTokens \cup MalformedTokens :
        t.token \in {"1-3", "5", "4-2", "1-10", "x"}}

RangeLists ==
    [1..1 -> RangeTokens \cup PageTokens \cup MalformedTokens]
        \cup SeqsUpTo(ExampleTokens, 2)

RangeInit ==
    /\ \E total_pages \in PageCounts :
          fs = (UPLOAD_FOLDER :> DirEntry) @@ (RangeDir :> DirEntry)
                  @@ (RangeInput :> FileEntry(Document(total_pages), TRUE))
    /\ jobs = <<>>
    /\ downloads = <<>>
    /\ threads = <<>>
    /\ config_delay \in ConfigDelays
    /\ calls = <<>>

\* one call of _split_into_ranges(input_file, temp_dir, 's', page_ranges)
split_into_ranges_call(tokens) ==
    /\ Len(calls) < MaxRangeCalls
    /\ \E r \in {_split_into_ranges(fs, RangeInput, RangeDir, "s",
                                    [i \in DOMAIN tokens |-> tokens[i].token])} :
          /\ fs' = r.fs
          /\ calls' = Append(calls,
                 [op |-> "_split_into_ranges", tokens |-> tokens,
                  total_pages |-> Len(fs[RangeInput].pages), ok |-> r.ok,
                  files |-> r.files,
                  outputs |-> [i \in DOMAIN r.files |-> r.fs[r.files[i]].pages]])
    /\ UNCHANGED <<jobs, downloads, threads, config_delay>>

RangeNext == \E tokens \in RangeLists : split_into_ranges_call(tokens)

RangeSpec == RangeInit /\ [][RangeNext]_vars

(***************************************************************************)
(* cleanup_processed_file of the workspace services called directly on a   *)
(* result, with and without a delay.                                       *)
(***************************************************************************)
\* the delays a caller passes: none, zero, and one that differs from every
\* configured value
ExplicitDelays == {None, 0, 3}

\* service.cleanup_processed_file(file_path, delay) on the result of job j,
\* which exists, as it does where download_file makes the call
cleanup_processed_file(j, delay) ==
    /\ calls = <<>>
    /\ jobs[j].pc = "done"
    /\ jobs[j].success
    /\ jobs[j].tool \in WorkspaceTools
    /\ IsFile(fs, get_file_path(jobs[j].tool, jobs[j].unique_id, jobs[j].filename))
    /\ \E file_path \in {get_file_path(jobs[j].tool, jobs[j].unique_id, jobs[j].filename)} :
          LET cleanup_delay == CleanupDelay(jobs[j].tool, delay)
              paths         == CleanupPaths(jobs[j].tool, file_path)
          IN  /\ IF CleanupRunsInThread(cleanup_delay)
                 THEN /\ threads' = Append(threads, [paths |-> paths, delay |-> cleanup_delay,
                                                     download |-> 0, pc |-> "sleeping"])
                      /\ fs' = fs
                 ELSE /\ threads' = threads
                      /\ fs' = CleanupPass(fs, paths)
              /\ calls' = Append(calls, [op |-> "cleanup_processed_file",
                                         service |-> jobs[j].tool, file_path |-> file_path,
                                         delay |-> delay, before |-> fs, pc |-> "returned"])
    /\ UNCHANGED <<jobs, downloads, config_delay>>

ProcessedNext ==
    \/ \E req \in MergeRequests \cup MergeOrderRequests : MayCall /\ merge_files(req)
    \/ \E j \in DOMAIN jobs, written \in BOOLEAN : merge_files_return(j, written)
    \/ \E req \in PdfToWordRequests : MayCall /\ convert_file(req)
    \/ \E j \in DOMAIN jobs, written \in BOOLEAN : convert_file_return(j, written)
    \/ \E req \in SplitRequests \cup SplitMoreRequests : MayCall /\ split_pdf(req)
    \/ \E j \in DOMAIN jobs, written \in BOOLEAN : split_pdf_return(j, written)
    \/ \E req \in WordToPdfRequests : MayCall /\ convert_word_to_pdf(req)
    \/ \E j \in DOMAIN jobs, written \in BOOLEAN : convert_word_to_pdf_return(j, written)
    \/ \E j \in DOMAIN jobs, delay \in ExplicitDelays : cleanup_processed_file(j, delay)
    \/ \E t \in DOMAIN threads : delayed_cleanup(t)

ProcessedSpec == Init /\ [][ProcessedNext]_vars

(***************************************************************************)
(* Properties                                                              *)
(***************************************************************************)
\* p is the directory d or lies below it
Within(p, d) == p = d \/ StartsWith(p, d \o "/")

\* job j of the next state returns in this step with the given outcome
ReturnsNow(j, success) ==
    /\ jobs'[j].pc = "done"
    /\ jobs'[j].success = success
    /\ (j \in DOMAIN jobs => jobs[j].pc = "run")

\* C1: whenever merge_files, split_pdf, convert_file or convert_word_to_pdf
\* returns failure after having created the job's workspace directory, that
\* directory and every file in it no longer exist when the call returns
C1_FailureRemovesWorkspace ==
    [][\A j \in DOMAIN jobs' :
          (/\ jobs'[j].tool \in WorkspaceTools
           /\ jobs'[j].temp_dir # ""
           /\ ReturnsNow(j, FALSE))
          => \A p \in DOMAIN fs' : ~Within(p, jobs'[j].temp_dir)]_vars

\* C2: every workspace directory, staged copy and result file created under
\* the upload root is eventually deleted, whether or not a download is ever
\* requested; requests being finitely many, from some moment on nothing but
\* the upload root itself remains
C2_EverythingEventuallyDeleted == <>[](DOMAIN fs = {UPLOAD_FOLDER})

C4_SuccessKeepsResult ==
    [][\A j \in DOMAIN jobs' :
          (jobs'[j].tool \in WorkspaceTools /\ ReturnsNow(j, TRUE))
          => /\ IsFile(fs', PathJoin(jobs'[j].temp_dir, jobs'[j].filename))
             /\ fs'[PathJoin(jobs'[j].temp_dir, jobs'[j].filename)].complete]_vars

\* C5: the (unique_id, filename) a successful call returns is resolved by
\* download_file to exactly the path at which the call wrote the result
C5_DownloadResolvesToResult ==
    \A j \in DOMAIN jobs :
        (jobs[j].pc = "done" /\ jobs[j].success)
        => DownloadPlans[<<jobs[j].unique_id, jobs[j].filename>>].file_path = jobs[j].out_path

\* C6: a result file is never deleted while a download response for it is
\* still being transferred, for one download and for overlapping ones, and
\* the delay applied to the cleanup after a download is nonzero
C6_NoDeletionWhileStreaming ==
    \A d \in DOMAIN downloads :
        /\ downloads[d].pc = "streaming" => IsFile(fs, downloads[d].file_path)
        /\ downloads[d].pc # "notfound" => downloads[d].delay > 0

\* the cleanup that download d scheduled has been carried out
CleanupElapsed(d) ==
    \/ downloads[d].pc # "notfound" /\ ~CleanupRunsInThread(downloads[d].delay)
    \/ \E t \in DOMAIN threads : threads[t].download = d /\ threads[t].pc = "done"

\* C7: after download_file has served an existing result, once the scheduled
\* cleanup delay has elapsed the result file and the job's workspace
\* directory no longer exist
C7_GoneAfterDelay ==
    \A d \in DOMAIN downloads :
        CleanupElapsed(d)
        => /\ ~Exists(fs, downloads[d].file_path)
           /\ ~Exists(fs, PathJoin(UPLOAD_FOLDER, downloads[d].unique_id))

\* the cleanup after a served download of a workspace tool has been carried out
C7_Witness ==
    \E t \in DOMAIN threads :
        /\ threads[t].pc = "done"
        /\ downloads[threads[t].download].pc = "done"
        /\ downloads[threads[t].download].service \in WorkspaceTools

\* C8: after a download has been served and before its cleanup delay has
\* elapsed, the result file still exists, so that a further download of the
\* same (unique_id, filename) in that interval is served
C8_RetrievableBeforeDelay ==
    \A d \in DOMAIN downloads :
        (downloads[d].pc \in {"streaming", "done"} /\ ~CleanupElapsed(d))
        => IsFile(fs, downloads[d].file_path)

\* the paths a job creates, writes, reads or deletes, the ones a download of
\* its result resolves to and cleans up included
JobPaths(job) ==
    LET d == DownloadPlans[<<job.unique_id, job.filename>>]
    IN  ({job.temp_dir, job.out_path} \ {""})
        \cup Range(job.temp_files) \cup Range(job.pieces)
        \cup Range(CleanupPaths(d.service, d.file_path))

\* the jobs that have drawn an identifier
WithId(js) == {i \in DOMAIN js : js[i].unique_id # ""}

\* the paths whose entry a step creates, rewrites or deletes
Touched ==
    {p \in DOMAIN fs \cup DOMAIN fs' :
        p \notin DOMAIN fs \/ p \notin DOMAIN fs' \/ fs[p] # fs'[p]}

\* C9: for any two jobs with distinct generated ids, handled concurrently by
\* any mix of tools, the paths of one are disjoint from the paths of the
\* other, and every step touches the paths of one job only
C9_JobsShareNoPath ==
    [][/\ \A j, k \in WithId(jobs') :
             j # k => JobPaths(jobs'[j]) \cap JobPaths(jobs'[k]) = {}
       /\ Touched # {} => \E j \in WithId(jobs') : Touched \subseteq JobPaths(jobs'[j])
      ]_vars

\* a workspace tool and a tool that writes beside the workspaces are at work at once
C9_Witness ==
    \E j, k \in DOMAIN jobs :
        /\ jobs[j].pc = "run" /\ jobs[j].tool \in WorkspaceTools
        /\ jobs[k].pc = "run" /\ jobs[k].tool \notin WorkspaceTools
        /\ IsFile(fs, jobs[j].out_path) /\ IsFile(fs, jobs[k].out_path)

\* C10: every staged copy and every produced file of a job lies inside the
\* job's own directory <upload root>/<unique_id>/: no job file is placed
\* directly in the upload root
C10_FilesInsideOwnDirectory ==
    \A j \in WithId(jobs) :
        \A p \in Range(jobs[j].temp_files) \cup Range(jobs[j].pieces) \cup {jobs[j].out_path} :
            IsFile(fs, p) => StartsWith(p, PathJoin(UPLOAD_FOLDER, jobs[j].unique_id) \o "/")

\* C11: for every unique_id and filename download_file can receive, the path
\* it resolves lies inside the upload root, and for the workspace tools inside
\* a child directory of the root: no file outside the root is served, and none
\* is handed to a cleanup
InsideRoot(p) == StartsWith(Normpath(p), UPLOAD_FOLDER \o "/")

InsideWorkspace(p) ==
    /\ InsideRoot(p)
    /\ Dirname(Normpath(p)) # UPLOAD_FOLDER

C11_DownloadStaysInsideRoot ==
    /\ \A d \in DOMAIN downloads :
          downloads[d].pc \in {"streaming", "done"}
          => IF downloads[d].service \in WorkspaceTools
             THEN InsideWorkspace(downloads[d].file_path)
             ELSE InsideRoot(downloads[d].file_path)
    /\ \A t \in DOMAIN threads :
          \A i \in DOMAIN threads[t].paths :
             IsFile(fs, threads[t].paths[i]) => InsideRoot(threads[t].paths[i])

\* the calls of cleanup_files made so far
CleanupCalls == {c \in DOMAIN calls : calls[c].op = "cleanup_files"}

\* the pass of call c has run to its end
PassOver(c) ==
    IF calls[c].delay > 0 THEN \E t \in DOMAIN threads : threads[t].pc = "done"
    ELSE calls[c].pc = "returned"

\* C12: cleanup_files with delay 0 on a list that holds a workspace directory
\* removes the directory with all its contents, whatever it still holds (of
\* files the operating system lets the process delete)
C12_DirectoryRemovedWithContents ==
    \A c \in CleanupCalls :
       calls[c].delay = 0
       => \A i \in DOMAIN calls[c].file_paths :
             (/\ IsDir(calls[c].before, calls[c].file_paths[i])
              /\ \A q \in DOMAIN calls[c].before :
                    Within(q, calls[c].file_paths[i]) => q \notin Undeletable)
             => \A q \in DOMAIN fs : ~Within(q, calls[c].file_paths[i])

\* every file the list of call c names that can be deleted is gone
ListedFilesGone(c) ==
    \A i \in DOMAIN calls[c].file_paths :
       (/\ IsFile(calls[c].before, calls[c].file_paths[i])
        /\ calls[c].file_paths[i] \notin Undeletable)
       => ~Exists(fs, calls[c].file_paths[i])

\* C13: with delay 0 cleanup_files has made all its deletions when it returns,
\* and starts no thread; with delay > 0 it returns at once, nothing is deleted
\* while its thread still sleeps, and the thread makes the deletions afterwards
C13_SynchronousOrAfterDelay ==
    \A c \in CleanupCalls :
       IF calls[c].delay = 0
       THEN threads = <<>> /\ ListedFilesGone(c)
       ELSE /\ calls[c].pc = "returned"
            /\ Len(threads) = 1
            /\ threads[1].paths = calls[c].file_paths
            /\ threads[1].pc = "sleeping" => fs = calls[c].before
            /\ threads[1].pc = "done" => ListedFilesGone(c)

\* a delayed call whose thread has woken and deleted a file
C13_Witness ==
    \E c \in CleanupCalls :
       /\ calls[c].delay > 0
       /\ \E t \in DOMAIN threads : threads[t].pc = "done"
       /\ fs # calls[c].before

\* C14: cleanup_files never raises to its caller; a listed path that is absent
\* or cannot be deleted is skipped (it stays as it was, and a list of absent
\* paths changes nothing) and the paths after it are still processed
C14_NeverRaisesSkipsAndGoesOn ==
    \A c \in CleanupCalls :
       /\ calls[c].pc # "raised"
       /\ PassOver(c)
          => /\ \A i \in DOMAIN calls[c].file_paths :
                   LET p == calls[c].file_paths[i]
                   IN  /\ (IsFile(calls[c].before, p) /\ p \in Undeletable) => IsFile(fs, p)
                       /\ (IsFile(calls[c].before, p) /\ p \notin Undeletable) => ~Exists(fs, p)
             /\ (\A i \in DOMAIN calls[c].file_paths :
                    ~Exists(calls[c].before, calls[c].file_paths[i]))
                => fs = calls[c].before

\* a synchronous call whose list names a file that cannot be deleted and then
\* one that can: the call has returned and the second file is gone
C14_Witness ==
    \E c \in CleanupCalls :
       /\ calls[c].delay = 0
       /\ calls[c].pc = "returned"
       /\ \E i, k \in DOMAIN calls[c].file_paths :
             /\ i < k
             /\ calls[c].file_paths[i] \in Undeletable
             /\ IsFile(calls[c].before, calls[c].file_paths[i])
             /\ IsFile(calls[c].before, calls[c].file_paths[k])
             /\ ~Exists(fs, calls[c].file_paths[k])

\* the uploads a request carries
Uploads(req) == IF "files" \in DOMAIN req THEN req.files ELSE <<req.file>>

RECURSIVE AfterLastDot(_)
AfterLastDot(s) ==
    LET i == Find(s, ".")
    IN  IF i = 0 THEN s ELSE AfterLastDot(SubSeq(s, i + 1, Len(s)))

\* the upload has a file name whose extension, in any case, is one of exts
HasExtension(file, exts) ==
    /\ file.filename # ""
    /\ Find(file.filename, ".") # 0
    /\ Lower(AfterLastDot(file.filename)) \in exts

\* the requests of a tool that carry no upload of the types the tool takes
NoValidInput(requests, exts) ==
    {req \in requests : \A i \in DOMAIN Uploads(req) : ~HasExtension(Uploads(req)[i], exts)}

MergeNoValid == NoValidInput(MergeRequests, {"pdf"})

SplitNoValid == NoValidInput(SplitRequests, {"pdf"})

PdfToWordNoValid == NoValidInput(PdfToWordRequests, {"pdf"})

WordToPdfNoValid == NoValidInput(WordToPdfRequests, {"docx", "doc"})

CompressNoValid == NoValidInput(CompressRequests, {"pdf"})

ImageNoValid == NoValidInput(ImageRequests, IMAGE_ALLOWED_EXTENSIONS)

\* this step answers a new request with a failure and writes nothing
RefusedUntouched ==
    /\ Len(jobs') = Len(jobs) + 1
    /\ jobs'[Len(jobs')].pc = "done"
    /\ ~jobs'[Len(jobs')].success
    /\ fs' = fs

\* C15: for every tool, a request with no valid input file is answered with
\* a failure and leaves the filesystem under the upload root as it was: no
\* workspace, no staged copy, no output file
C15_NoValidInputChangesNothing ==
    [][Len(jobs') > Len(jobs)
       => /\ \A req \in MergeNoValid : merge_files(req) => RefusedUntouched
          /\ \A req \in SplitNoValid : split_pdf(req) => RefusedUntouched
          /\ \A req \in PdfToWordNoValid : convert_file(req) => RefusedUntouched
          /\ \A req \in WordToPdfNoValid : convert_word_to_pdf(req) => RefusedUntouched
          /\ \A req \in CompressNoValid : compress_pdf(req) => RefusedUntouched
          /\ \A req \in ImageNoValid : convert_images_to_pdf(req) => RefusedUntouched]_vars

\* every tool has requests of that kind, and an image request and a Word request
\* (whose only refused requests are of that kind) have been refused with the
\* upload root still empty
C15_Witness ==
    /\ \A S \in {MergeNoValid, SplitNoValid, PdfToWordNoValid, WordToPdfNoValid,
                  CompressNoValid, ImageNoValid} : S # {}
    /\ \E j, k \in DOMAIN jobs :
          /\ jobs[j] = Rejected("image")
          /\ jobs[k] = Rejected("word2pdf")
    /\ DOMAIN fs = {UPLOAD_FOLDER}

\* an upload validate_pdf_files is to accept
AcceptedPdf(file) == HasExtension(file, ALLOWED_EXTENSIONS)

\* C16: validate_pdf_files accepts exactly the uploads that have a file name
\* whose extension after the last dot, in any case, is an allowed one, keeps
\* them in the order of the input, and returns failure exactly when fewer
\* than min_files uploads are accepted
C16_ValidateAcceptsExactly ==
    \A c \in DOMAIN calls :
       calls[c].op = "validate_pdf_files"
       => LET accepted == SelectSeq(calls[c].files, AcceptedPdf)
          IN  /\ calls[c].ok <=> Len(accepted) >= calls[c].min_files
              /\ calls[c].ok => calls[c].valid_files = accepted

\* a merge validation that, among three uploads, accepted x.pdf and Y.PDF in
\* that order and dropped the third
C16_Witness ==
    \E c \in DOMAIN calls :
       /\ calls[c].op = "validate_pdf_files"
       /\ calls[c].min_files = 2
       /\ Len(calls[c].files) = 3
       /\ calls[c].ok
       /\ Len(calls[c].valid_files) = 2
       /\ calls[c].valid_files[1].filename = "x.pdf"
       /\ calls[c].valid_files[2].filename = "Y.PDF"

\* C18: save_uploaded_files persists every upload that has a file name at a
\* path that is a direct child of the workspace directory, and the paths of
\* two uploads of one batch differ, whatever the original file names
C18_StagedInsideAndDistinct ==
    \A c \in DOMAIN calls :
       calls[c].op = "save_uploaded_files"
       => LET named == SelectSeq(calls[c].files, HasFilename)
              paths == calls[c].temp_files
          IN  /\ Len(paths) = Len(named)
              /\ \A i \in DOMAIN paths :
                    /\ Dirname(paths[i]) = calls[c].temp_dir
                    /\ Normpath(paths[i]) = paths[i]
                    /\ IsFile(fs, paths[i])
                    /\ fs[paths[i]].pages = named[i].pages
              /\ \A i, k \in DOMAIN paths : i # k => paths[i] # paths[k]

\* a batch of twelve uploads whose names are digits and underscores: the
\* second is 1_x.pdf and the twelfth x.pdf, and all twelve are staged
C18_Witness ==
    \E c \in DOMAIN calls :
       /\ calls[c].op = "save_uploaded_files"
       /\ Len(calls[c].files) = MaxBatch
       /\ calls[c].files[2].filename = "1_x.pdf"
       /\ calls[c].files[MaxBatch].filename = "x.pdf"
       /\ Cardinality({q \in DOMAIN fs : Dirname(q) = calls[c].temp_dir}) = MaxBatch

\* the PDF to Word requests that carry more than one file
PdfToWordMany == {req \in PdfToWordRequests : Len(req.files) > 1}

\* C17: convert_file never returns success for a request that carries more
\* than one file, whatever the extensions of the extra files: taking such a
\* request, it answers with its failure and converts nothing
C17_MoreThanOneFileRefused ==
    [][Len(jobs') > Len(jobs)
       => \A req \in PdfToWordMany :
             convert_file(req)
             => jobs'[Len(jobs')].pc = "done" /\ ~jobs'[Len(jobs')].success]_vars

\* the merge requests with a PDF no library can parse among their uploads
MergeCorrupt ==
    {req \in MergeRequests :
        /\ \A i \in DOMAIN req.files : AcceptedPdf(req.files[i])
        /\ \E i \in DOMAIN req.files : req.files[i].pages = <<>>}

\* the transform of job j fails in this step, while writing its output
TransformFails(j) ==
    \/ merge_files_return(j, FALSE)
    \/ split_pdf_return(j, FALSE)
    \/ convert_file_return(j, FALSE)
    \/ convert_word_to_pdf_return(j, FALSE)
    \/ compress_pdf_return(j, FALSE)
    \/ convert_images_to_pdf_return(j, FALSE)

\* C19: a processing request refused by input validation is answered with
\* HTTP 400, and one whose transform fails during processing (corrupt input,
\* failure of the transform library) with HTTP 500
C19_StatusTellsFailuresApart ==
    [][/\ Len(jobs') > Len(jobs)
          => /\ \A req \in MergeNoValid :
                   merge_files(req) => jobs'[Len(jobs')].http = 400
             /\ \A req \in ImageNoValid :
                   convert_images_to_pdf(req) => jobs'[Len(jobs')].http = 400
             /\ \A req \in MergeCorrupt :
                   merge_files(req) => jobs'[Len(jobs')].http = 500
       /\ \A j \in DOMAIN jobs : TransformFails(j) => jobs'[j].http = 500]_vars

\* C20: a download request whose resolved path does not exist (unknown or
\* expired job or file) is answered with the notice and the redirect; it
\* starts no cleanup and leaves the filesystem as it was
C20_MissingFileRedirects ==
    [][Len(downloads') > Len(downloads)
       => \A r \in DownloadPairs :
             (/\ r[1] = downloads'[Len(downloads')].unique_id
              /\ DownloadPlans[r].real_path \notin DOMAIN fs
              /\ download_file(r[1], r[2]))
             => /\ downloads'[Len(downloads')].pc = "notfound"
                /\ fs' = fs
                /\ threads' = threads]_vars

\* a result that was downloaded and has expired is requested again and the
\* request is answered with the notice
C20_Witness ==
    \E d, e \in DOMAIN downloads :
       /\ d < e
       /\ downloads[d].pc \in {"streaming", "done"}
       /\ downloads[e].pc = "notfound"
       /\ downloads[e].file_path = downloads[d].file_path
       /\ InsideRoot(downloads[e].file_path)

\* what the six entry points have done with the requests received
EntryPoints == {"merge", "split", "pdf2word", "word2pdf", "compress", "image"}

\* C21: no entry point raises: whatever a call in its body raises, the entry
\* point returns (False, message), and no request ends as an exception in the
\* route
C21_EntryPointsNeverRaise ==
    [][/\ \A j \in DOMAIN jobs' :
             /\ jobs'[j].tool \in EntryPoints
             /\ jobs'[j].pc \in {"run", "done"}
             /\ jobs'[j].http # 500
       /\ \A j \in DOMAIN jobs, exc \in EntryFaults :
             entry_point_except(j, exc) => jobs'[j].pc = "done" /\ ~jobs'[j].success]_vars

\* a compression whose body raised after the output was opened has returned
\* failure
C21_Witness ==
    \E j \in DOMAIN jobs :
       /\ jobs[j].tool = "compress"
       /\ jobs[j].pc = "done"
       /\ ~jobs[j].success
       /\ jobs[j].out_path \in DOMAIN fs
       /\ ~fs[jobs[j].out_path].complete
       /\ \A i \in DOMAIN jobs[j].temp_files : jobs[j].temp_files[i] \in DOMAIN fs

\* the pages lo..hi of the staged document, in ascending order
PagesFromTo(total_pages, lo, hi) == [n \in 1..(hi - lo + 1) |-> Document(total_pages)[lo + n - 1]]

Largest(a, b) == IF a > b THEN a ELSE b

Smallest(a, b) == IF a < b THEN a ELSE b

\* the token is one the request is not rejected for
TokenAccepted(t, total_pages) ==
    \/ t.form = "range" /\ Largest(1, t.a) <= Smallest(total_pages, t.b)
    \/ t.form = "page" /\ 1 <= t.a /\ t.a <= total_pages

RangeCalls == {k \in DOMAIN calls : calls[k].op = "_split_into_ranges"}

\* C22: a token 'a-b' resolves to the pages max(1,a)..min(P,b) in ascending
\* order and a token 'n' to page n alone; the request is rejected when a range
\* is empty after clamping, a page lies outside [1,P] or a token has neither
\* form
C22_RangeTokensResolve ==
    \A k \in RangeCalls :
       LET c == calls[k]
       IN  IF c.tokens # <<>> /\ \A i \in DOMAIN c.tokens : TokenAccepted(c.tokens[i], c.total_pages)
           THEN /\ c.ok
                /\ Len(c.outputs) = Len(c.tokens)
                /\ \A i \in DOMAIN c.tokens :
                      c.outputs[i] = PagesFromTo(c.total_pages,
                                                 Largest(1, c.tokens[i].a),
                                                 Smallest(c.total_pages, c.tokens[i].b))
           ELSE ~c.ok

\* ['1-3', '5'] on six pages has given outputs of three pages and one page
C22_Witness ==
    \E k \in RangeCalls :
       /\ calls[k].total_pages = 6
       /\ Len(calls[k].tokens) = 2
       /\ calls[k].tokens[1].token = "1-3"
       /\ calls[k].tokens[2].token = "5"
       /\ calls[k].ok
       /\ calls[k].outputs = <<<<"s1", "s2", "s3">>, <<"s5">>>>

\* the pages of the uploads, one upload after the other
RECURSIVE Concatenation(_)
Concatenation(files) ==
    IF files = <<>> THEN <<>> ELSE Head(files).pages \o Concatenation(Tail(files))

\* the merges of at least two accepted PDFs
MergesOfSeveral ==
    {req \in MergeRequests \cup MergeOrderRequests :
        Len(SelectSeq(req.files, AcceptedPdf)) >= 2}

\* C23: the document a merge writes has the pages of the accepted uploads in
\* upload order, each upload's pages in their own order, and nothing of the
\* uploads the validation dropped; a successful merge leaves that document
\* as its result (unless the result was given the name of a staged copy)
C23_MergeConcatenatesInOrder ==
    [][/\ \A req \in MergesOfSeveral :
             (merge_files(req) /\ jobs'[Len(jobs')].pc = "run")
             => jobs'[Len(jobs')].result = Concatenation(SelectSeq(req.files, AcceptedPdf))
       /\ \A j \in DOMAIN jobs :
             (/\ merge_files_return(j, TRUE)
              /\ \A i \in DOMAIN jobs[j].temp_files : jobs[j].temp_files[i] # jobs[j].out_path)
             => /\ jobs[j].out_path \in DOMAIN fs'
                /\ fs'[jobs[j].out_path].complete
                /\ fs'[jobs[j].out_path].pages = jobs[j].result]_vars

\* five uploads, three of them accepted, two under one name: the result has
\* the pages of y.pdf, then x.pdf, then the second x.pdf
C23_Witness ==
    \E j \in DOMAIN jobs :
       /\ jobs[j].tool = "merge"
       /\ jobs[j].pc = "done"
       /\ jobs[j].success
       /\ Len(jobs[j].temp_files) = 3
       /\ jobs[j].out_path \in DOMAIN fs
       /\ fs[jobs[j].out_path].pages = <<"y1", "x1", "x2", "z1">>

\* no two entries of the sequence are equal
PairwiseDistinct(seq) == \A a, b \in DOMAIN seq : a # b => seq[a] # seq[b]

\* the splits by page of a document that can be read
SplitsByPage ==
    {req \in SplitRequests \cup SplitMoreRequests :
        /\ req.split_type = "pages"
        /\ AcceptedPdf(req.file)
        /\ req.file.pages # <<>>}

\* C24: a split by page of a document of P pages writes P files, file i
\* holding page i alone, and counts P; the ZIP of a successful split has P
\* entries, one per file, under pairwise distinct names
C24_SplitByPageGivesEveryPage ==
    [][/\ \A req \in SplitsByPage :
             split_pdf(req)
             => \E j \in {Len(jobs')} :
                   /\ jobs'[j].pc = "run"
                   /\ SplitCount(jobs'[j]) = Len(req.file.pages)
                   /\ Len(jobs'[j].pieces) = Len(req.file.pages)
                   /\ PairwiseDistinct(jobs'[j].pieces)
                   /\ \A i \in DOMAIN req.file.pages :
                         /\ jobs'[j].pieces[i] \in DOMAIN fs'
                         /\ fs'[jobs'[j].pieces[i]].pages = <<req.file.pages[i]>>
       /\ \A j \in DOMAIN jobs :
             (split_pdf_return(j, TRUE) /\ jobs[j].pieces # <<>>)
             => /\ jobs[j].out_path \in DOMAIN fs'
                /\ fs'[jobs[j].out_path].complete
                /\ Len(fs'[jobs[j].out_path].pages) = SplitCount(jobs[j])
                /\ \A i \in DOMAIN jobs[j].pieces :
                      fs'[jobs[j].out_path].pages[i] = Basename(jobs[j].pieces[i])
                /\ PairwiseDistinct(jobs[j].pieces)
                      => PairwiseDistinct(fs'[jobs[j].out_path].pages)]_vars

\* a document of six pages has been split by page and its ZIP holds six
\* entries
C24_Witness ==
    \E j \in DOMAIN jobs :
       /\ jobs[j].tool = "split"
       /\ jobs[j].pc = "done"
       /\ jobs[j].success
       /\ SplitCount(jobs[j]) = 6
       /\ jobs[j].out_path \in DOMAIN fs
       /\ Len(fs[jobs[j].out_path].pages) = 6
       /\ PairwiseDistinct(fs[jobs[j].out_path].pages)
       /\ Contains(jobs[j].pieces[1], "-page-1.pdf")

AcceptedImage(file) == HasExtension(file, IMAGE_ALLOWED_EXTENSIONS)

\* the conversions of at least one accepted picture, every one readable
ConversionsOfPictures ==
    {req \in ImageRequests \cup ImageMoreRequests :
        /\ SelectSeq(req.files, AcceptedImage) # <<>>
        /\ \A i \in DOMAIN req.files : AcceptedImage(req.files[i]) => req.files[i].pages # <<>>}

MarginNames == {"none", "small", "medium", "large"}

\* the margin the claim gives a request: the named one, 'medium' for a name
\* that is no margin
ClaimedMargin(req) ==
    IF req.margin_size \in MarginNames THEN MARGIN_SETTINGS[req.margin_size]
    ELSE MARGIN_SETTINGS.medium

\* C25: a conversion of K accepted pictures draws K pages, page i showing
\* picture i of the accepted uploads in input order inside the margin asked
\* for, a name that is no margin counting as 'medium'; when the document is
\* saved the conversion returns success and the result holds those K pages
C25_OnePagePerImageInOrder ==
    [][/\ \A req \in ConversionsOfPictures :
             convert_images_to_pdf(req)
             => \E j \in {Len(jobs')} :
                   LET accepted == SelectSeq(req.files, AcceptedImage)
                   IN  /\ jobs'[j].pc = "run"
                       /\ jobs'[j].result =
                             [i \in DOMAIN accepted |->
                                 accepted[i].pages[1] \o "@" \o ToStr(ClaimedMargin(req))]
       /\ \A j \in DOMAIN jobs :
             convert_images_to_pdf_return(j, TRUE)
             => /\ jobs'[j].success
                /\ jobs[j].out_path \in DOMAIN fs'
                /\ fs'[jobs[j].out_path].complete
                /\ fs'[jobs[j].out_path].pages = jobs[j].result]_vars

\* p.png, notes.txt and j.JPG sent with the margin 'huge' have become a
\* document of two pages with the medium margin
C25_Witness ==
    \E j \in DOMAIN jobs :
       /\ jobs[j].tool = "image"
       /\ jobs[j].pc = "done"
       /\ jobs[j].success
       /\ jobs[j].out_path \in DOMAIN fs
       /\ fs[jobs[j].out_path].pages = <<"p1@72", "j1@72">>
       /\ Len(jobs[j].temp_files) = 2
       /\ EndsWith(jobs[j].temp_files[2], "j.JPG")

FlatTools == {"compress", "image"}

\* C26: when compress_pdf or convert_images_to_pdf returns failure, neither a
\* temporary copy of an upload of the request nor its output file, complete
\* or partial, exists under the upload root
C26_FailureLeavesNothing ==
    [][\A j \in DOMAIN jobs' :
          (/\ jobs'[j].tool \in FlatTools
           /\ jobs'[j].unique_id # ""
           /\ ReturnsNow(j, FALSE))
          => /\ jobs'[j].out_path \notin DOMAIN fs'
             /\ \A i \in DOMAIN jobs'[j].temp_files : jobs'[j].temp_files[i] \notin DOMAIN fs']_vars

\* C27: the temporary paths at which an image conversion has persisted the
\* accepted uploads of one request are pairwise distinct, whatever the names
\* the uploads were sent under
C27_ImageTempPathsDistinct ==
    \A j \in DOMAIN jobs :
       jobs[j].tool = "image" => PairwiseDistinct(jobs[j].temp_files)

\* the distinct values of a sequence
Distinct(seq) == {seq[i] : i \in DOMAIN seq}

\* the splits by ranges of a readable document whose tokens are all accepted
SplitsByRanges ==
    {req \in SplitRequests \cup SplitMoreRequests :
        /\ req.split_type = "ranges"
        /\ AcceptedPdf(req.file)
        /\ req.page_ranges # <<>>
        /\ \A i \in DOMAIN req.page_ranges :
              ParseRange(req.page_ranges[i], Len(req.file.pages)).ok}

\* C28: a split by R accepted range tokens has one distinct file per token in
\* the workspace before zipping; the ZIP of the successful split has R
\* distinct entries and split_count is the number of distinct PDFs in it
C28_OneOutputPerRangeToken ==
    [][/\ \A req \in SplitsByRanges :
             split_pdf(req)
             => \E j \in {Len(jobs')} :
                   /\ jobs'[j].pc = "run"
                   /\ Cardinality(Distinct(jobs'[j].pieces)) = Len(req.page_ranges)
                   /\ \A i \in DOMAIN jobs'[j].pieces : jobs'[j].pieces[i] \in DOMAIN fs'
       /\ \A j \in DOMAIN jobs :
             (split_pdf_return(j, TRUE) /\ jobs[j].pieces # <<>>)
             => /\ jobs[j].out_path \in DOMAIN fs'
                /\ Cardinality(Distinct(fs'[jobs[j].out_path].pages)) = Len(jobs[j].pieces)
                /\ SplitCount(jobs[j]) = Cardinality(Distinct(fs'[jobs[j].out_path].pages))]_vars

ProcessedCalls == {c \in DOMAIN calls : calls[c].op = "cleanup_processed_file"}

\* the delay the claim gives a call: the one passed, the configured one when
\* none was passed
ClaimedDelay(c) == IF calls[c].delay = None THEN config_delay ELSE calls[c].delay

\* C29: cleanup_processed_file of a workspace service deletes after the delay
\* it was passed, synchronously when that delay is 0, and after the
\* configured CLEANUP_DELAY only when it was passed none
C29_ExplicitDelayIsUsed ==
    \A c \in ProcessedCalls :
       IF ClaimedDelay(c) = 0
       THEN /\ threads = <<>>
            /\ ~Exists(fs, calls[c].file_path)
       ELSE /\ Len(threads) = 1
            /\ threads[1].delay = ClaimedDelay(c)

\* C30: whatever tool made a result, the cleanup started by a served download
\* of it waits the configured CLEANUP_DELAY before it deletes the result
C30_DeletionDelayIsConfigured ==
    \A d \in DOMAIN downloads :
       downloads[d].pc # "notfound"
       => /\ downloads[d].delay = config_delay
          /\ \A t \in DOMAIN threads :
                threads[t].download = d => threads[t].delay = config_delay

====
